---- MODULE Spec2Model ----
(***************************************************************************)
(* Plotting_Functions.py: region classification, table preparation, label  *)
(* formatting, aggregation over proteins and top-n selection.              *)
(*                                                                         *)
(* A pandas DataFrame is a record [cols, iname, rows]: the set of its      *)
(* column names, the name of its index and the sequence of its rows.  A    *)
(* row carries one field per column the program ever uses; the field of a  *)
(* column the table does not have holds the missing value (NaN), which is  *)
(* what pandas.concat puts there.  The week columns are kept together in   *)
(* the field w.  The fields gp and gc are history fields: the protein and  *)
(* the raw code of the file row a row was made from.                       *)
(***************************************************************************)
EXTENDS Integers, Sequences, FiniteSets, TLC

VARIABLES env, call, ret

vars == <<env, call, ret>>

(***************************************************************************)
(* Bounds of the model.                                                    *)
(***************************************************************************)
MaxPos == 3
MaxRegions == 2
NWeeks == 2
MaxVal == 2
MaxN == 2

(***************************************************************************)
(* Cell values.  A Position cell is a residue number, the string "-"       *)
(* (Dash) or the missing value of a blank CSV field (NaN); the two are     *)
(* numbers outside the residue range here because TLC compares only        *)
(* values of one type.                                                     *)
(***************************************************************************)
NaN == -2
Dash == -1
NullStr == "NaN"
None == "None"
Unbound == "<unbound>"

Proteins == {"Spike", "N"}
Continents == {"Global", "Asia"}
RegionNames == {"Head", "Tail"}

Range(s) == {s[i] : i \in DOMAIN s}

RECURSIVE SumSeq(_)
SumSeq(s) == IF s = <<>> THEN 0 ELSE Head(s) + SumSeq(Tail(s))

RECURSIVE Concat(_)
Concat(ss) == IF ss = <<>> THEN <<>> ELSE Head(ss) \o Concat(Tail(ss))

RECURSIVE SelectIdx(_, _)
\* positions of s, ascending, whose element is in the set keep
SelectIdx(s, keep) ==
    IF s = <<>> THEN <<>>
    ELSE LET rest == SelectIdx(SubSeq(s, 1, Len(s) - 1), keep)
         IN IF s[Len(s)] \in keep THEN Append(rest, Len(s)) ELSE rest

(***************************************************************************)
(* str.lower on the strings the program lowers: protein names and codes.   *)
(***************************************************************************)
LowerTable ==
    [s \in {"Spike", "N", "Zero_Mutations_in_Spike", "Zero_Mutations_in_N",
            "ZERO_MUTATIONS_IN_SPIKE", "Total_Genomes", "A1V", "B2W", "C3X", "SPIKE",
            "Zero_mutations_in_spike"} |->
        CASE s = "Spike" -> "spike"
          [] s = "SPIKE" -> "spike"
          [] s = "Zero_mutations_in_spike" -> "zero_mutations_in_spike"
          [] s = "N" -> "n"
          [] s = "Zero_Mutations_in_Spike" -> "zero_mutations_in_spike"
          [] s = "ZERO_MUTATIONS_IN_SPIKE" -> "zero_mutations_in_spike"
          [] s = "Zero_Mutations_in_N" -> "zero_mutations_in_n"
          [] s = "Total_Genomes" -> "total_genomes"
          [] s = "A1V" -> "a1v"
          [] s = "B2W" -> "b2w"
          [] s = "C3X" -> "c3x"]

Lower(s) == IF s \in DOMAIN LowerTable THEN LowerTable[s] ELSE s

(***************************************************************************)
(* Protein_Region and region_checker.                                      *)
(***************************************************************************)
Protein_Region(name, start, end) == [name |-> name, start |-> start, end |-> end]

\* a comparison with NaN is False
check_position_strict(region, position) ==
    position # NaN /\ position > region.start /\ position < region.end

check_position(region, position) ==
    position # NaN /\ position >= region.start /\ position <= region.end

RECURSIVE region_scan(_, _)
region_scan(position, regions) ==
    IF regions = <<>> THEN "Other"
    ELSE IF check_position(Head(regions), position) THEN Head(regions).name
    ELSE region_scan(position, Tail(regions))

region_checker_nodash(position, regions) == region_scan(position, regions)

region_checker(position, regions) ==
    IF position = Dash THEN "-" ELSE region_scan(position, regions)

\* the catalog a region file holds: one Protein_Region per line after the header
initialize_regions(region_path) ==
    [i \in DOMAIN env.reg[region_path] |->
        Protein_Region(env.reg[region_path][i].name,
                       env.reg[region_path][i].start,
                       env.reg[region_path][i].end)]

(***************************************************************************)
(* Tables.                                                                 *)
(***************************************************************************)
RangeIdx(i) == [s |-> "", i |-> i]
LabelIdx(s) == [s |-> s, i |-> NaN]
NullW == [k \in 1..NWeeks |-> NaN]
NullPct == [num |-> NaN, den |-> 1]

BlankRow ==
    [idx |-> RangeIdx(0), Code |-> NullStr, Position |-> NaN, Region |-> NullStr,
     Protein |-> NullStr, Type |-> NullStr, Frequency |-> NaN,
     Percentage |-> NullPct, w |-> NullW, gp |-> "", gc |-> ""]

Ok(tab) == [err |-> "", tab |-> tab]
Fail(e) == [err |-> e, tab |-> [cols |-> {}, iname |-> "", rows |-> <<>>]]

\* pd.read_csv of a time series file, first column renamed to "Code"
read_TS(TS_path) ==
    LET file == env.ts[TS_path]
    IN [cols |-> {"Code", "weeks"}, iname |-> "",
        rows |-> [i \in DOMAIN file |->
                    [BlankRow EXCEPT !.idx = RangeIdx(i - 1), !.Code = file[i].key,
                                     !.w = file[i].w, !.gp = TS_path.protein,
                                     !.gc = file[i].key]]]

\* pd.read_csv of a variants-by-code catalog
read_codes(protein) ==
    LET file == env.cat[protein]
    IN [cols |-> {"Code", "Type", "Position", "Frequency", "Percentage"}, iname |-> "",
        rows |-> [i \in DOMAIN file |->
                    [BlankRow EXCEPT !.idx = RangeIdx(i - 1), !.Code = file[i].Code,
                                     !.Type = file[i].Type, !.Position = file[i].Position,
                                     !.Frequency = file[i].Frequency,
                                     !.Percentage = file[i].Percentage,
                                     !.gp = protein, !.gc = file[i].Code]]]

\* if subset_codes: None, 0, [] and () are false
Truthy(subset_codes) ==
    CASE subset_codes.kind = "None" -> FALSE
      [] subset_codes.kind = "int" -> subset_codes.n # 0
      [] OTHER -> subset_codes.items # <<>>

fillna_skipped(v) == v

\* TS.fillna(value="-") on one cell
fillna(v) == IF v = NaN THEN Dash ELSE v

\* the merge key of a row: the column "Code", or the index level named "Code"
KeyOf(TS, r) == IF "Code" \in TS.cols THEN r.Code ELSE r.idx.s

PositionOf(codes, k) ==
    LET hits == {i \in DOMAIN codes.rows : codes.rows[i].Code = k}
    IN IF hits = {} THEN NaN
       ELSE codes.rows[CHOOSE i \in hits : \A j \in hits : i <= j].Position

\* pd.merge(left=TS, right=codes[["Code","Position"]], on="Code", how="left")
\* followed by fillna("-"): the key ends up a column and the index is reset
merge_position(TS, codes) ==
    [cols |-> TS.cols \cup {"Code", "Position"}, iname |-> "",
     rows |-> [i \in DOMAIN TS.rows |->
                 [TS.rows[i] EXCEPT !.idx = RangeIdx(i - 1),
                                    !.Code = KeyOf(TS, TS.rows[i]),
                                    !.Position = fillna(PositionOf(codes, KeyOf(TS, TS.rows[i]))),
                                    !.w = [k \in 1..NWeeks |-> fillna(TS.rows[i].w[k])]]]]

subset_rows(TS, subset_codes) ==
    LET keep == SelectIdx([i \in DOMAIN TS.rows |-> TS.rows[i].Code], Range(subset_codes.items))
    IN [TS EXCEPT !.rows = [i \in DOMAIN keep |-> TS.rows[keep[i]]]]

index_by_code(TS) ==
    [cols |-> TS.cols \ {"Code"}, iname |-> "Code",
     rows |-> [i \in DOMAIN TS.rows |->
                 [TS.rows[i] EXCEPT !.idx = LabelIdx(TS.rows[i].Code), !.Code = NullStr]]]

prepare_TS_unchecked(TS_path, position, var_by_code_path, subset_codes, reindex) ==
    LET TS0 == read_TS(TS_path)
        TS1 == IF Truthy(subset_codes) THEN subset_rows(TS0, subset_codes) ELSE TS0
        TS2 == IF reindex THEN index_by_code(TS1) ELSE TS1
    IN IF Truthy(subset_codes) /\ subset_codes.kind # "list" THEN Fail("ValueError")
       ELSE IF ~position \/ var_by_code_path = None THEN Ok(TS2)
       ELSE Ok(merge_position(TS2, read_codes(var_by_code_path)))

prepare_TS(TS_path, position, var_by_code_path, subset_codes, reindex) ==
    LET TS0 == read_TS(TS_path)
        TS1 == IF Truthy(subset_codes) THEN subset_rows(TS0, subset_codes) ELSE TS0
        TS2 == IF reindex THEN index_by_code(TS1) ELSE TS1
    IN IF Truthy(subset_codes) /\ subset_codes.kind # "list" THEN Fail("ValueError")
       ELSE IF ~position THEN Ok(TS2)
       ELSE IF var_by_code_path = None THEN Fail("ValueError")
       ELSE Ok(merge_position(TS2, read_codes(var_by_code_path)))

add_region_column(data, region_type, region_path) ==
    [data EXCEPT !.cols = @ \cup {region_type},
                 !.rows = [i \in DOMAIN data.rows |->
                             [data.rows[i] EXCEPT !.Region =
                                 region_checker(data.rows[i].Position,
                                                initialize_regions(region_path))]]]

add_dashes(df, new_colname) ==
    [df EXCEPT !.cols = @ \cup {new_colname},
               !.rows = [i \in DOMAIN df.rows |-> [df.rows[i] EXCEPT !.Region = "-"]]]

(***************************************************************************)
(* Labels.                                                                 *)
(***************************************************************************)
display_region_always(code, region) == code \o " (" \o region \o ")"

display_region(code, region) ==
    IF region = "-" THEN code ELSE code \o " (" \o region \o ")"

display_protein_exact(code, protein) ==
    IF code = "Zero_Mutations_in_" \o protein THEN code
    ELSE protein \o ": " \o code

display_protein(code, protein) ==
    IF Lower(code) = "zero_mutations_in_" \o Lower(protein) THEN code
    ELSE protein \o ": " \o code

display_region_and_protein(code, region, protein) ==
    IF region = "-" THEN code
    ELSE protein \o ": " \o code \o " (" \o region \o ")"

\* region_colname and protein are None when not passed
code_region_index(TS, region_colname, protein) ==
    LET label(r) ==
            IF protein # None /\ region_colname # None
                THEN display_region_and_protein(r.Code, r.Region, protein)
            ELSE IF protein # None THEN display_protein(r.Code, protein)
            ELSE IF region_colname # None THEN display_region(r.Code, r.Region)
            ELSE r.Code
        dropped == IF region_colname # None THEN {"Code", region_colname} ELSE {"Code"}
    IN [cols |-> TS.cols \ dropped,
        iname |-> IF protein = None /\ region_colname = None THEN "Code" ELSE "",
        rows |-> [i \in DOMAIN TS.rows |->
                    [TS.rows[i] EXCEPT !.idx = LabelIdx(label(TS.rows[i])),
                                       !.Code = NullStr,
                                       !.Region = IF region_colname # None THEN NullStr ELSE @]]]

drop_column_kept(TS, col) == TS

\* TS.drop(col, axis=1)
drop_column(TS, col) ==
    [TS EXCEPT !.cols = @ \ {col},
               !.rows = [i \in DOMAIN TS.rows |->
                           IF col = "Position" THEN [TS.rows[i] EXCEPT !.Position = NaN]
                           ELSE TS.rows[i]]]

drop_first_none(TS, k) == TS

\* TS[k:] and TS.iloc[k:, :]
drop_first(TS, k) ==
    [TS EXCEPT !.rows = IF Len(TS.rows) <= k THEN <<>> ELSE SubSeq(TS.rows, k + 1, Len(TS.rows))]

\* TS["Protein"] = protein
set_protein(TS, protein) ==
    [TS EXCEPT !.cols = @ \cup {"Protein"},
               !.rows = [i \in DOMAIN TS.rows |-> [TS.rows[i] EXCEPT !.Protein = protein]]]

\* pd.concat(tables, axis=0): the rows in order, the union of the columns
concat(tables) ==
    [cols |-> UNION {tables[i].cols : i \in DOMAIN tables},
     iname |-> "",
     rows |-> Concat([i \in DOMAIN tables |-> tables[i].rows])]

(***************************************************************************)
(* Region maps.  A region map argument is [kind, m, s]: kind "None" when   *)
(* the argument is None, "dict" with the dictionary m (a function from the *)
(* proteins that are keys to a path or None), "str" with the path s.       *)
(***************************************************************************)
RegionPaths == {"ref/Spike_Domain.csv", "ref/N_Domain_v2.csv", "ref/N_Subunit.csv"}

\* the underscore-separated fields of a path's file name, each split at ".csv"
PathFields ==
    [path \in RegionPaths |->
        CASE path = "ref/Spike_Domain.csv" ->
                <<[stem |-> "Spike", ext |-> ""], [stem |-> "Domain", ext |-> ".csv"]>>
          [] path = "ref/N_Domain_v2.csv" ->
                <<[stem |-> "N", ext |-> ""], [stem |-> "Domain", ext |-> ""],
                  [stem |-> "v2", ext |-> ".csv"]>>
          [] path = "ref/N_Subunit.csv" ->
                <<[stem |-> "N", ext |-> ""], [stem |-> "Subunit", ext |-> ".csv"]>>]

EmptyDict == [p \in {} |-> None]
NoMap == [kind |-> "None", m |-> EmptyDict, s |-> ""]
DictMap(m) == [kind |-> "dict", m |-> m, s |-> ""]
StrMap(s) == [kind |-> "str", m |-> EmptyDict, s |-> s]

\* Python truth value of a region map argument
MapTruthy(region_paths) ==
    \/ region_paths.kind = "dict" /\ DOMAIN region_paths.m # {}
    \/ region_paths.kind = "str" /\ region_paths.s # ""

check_region_paths_nofill(proteins, m) == m

\* every listed protein set to None, entries already present included
check_region_paths_reset(proteins, m) ==
    [p \in DOMAIN m \cup Range(proteins) |-> IF p \in Range(proteins) THEN None ELSE m[p]]

check_region_paths(proteins, m) ==
    [p \in DOMAIN m \cup Range(proteins) |-> IF p \in DOMAIN m THEN m[p] ELSE None]

\* lines 333-337: second underscore-separated field of the file name, ".csv" cut
region_name_of(path) ==
    LET f == PathFields[path][2]
    IN IF f.ext = ".csv" THEN f.stem ELSE f.stem \o f.ext

RECURSIVE last_region_name(_, _)
\* lines 330-337: the loop leaves region_name at the last protein with a path
last_region_name(proteins, m) ==
    IF proteins = <<>> THEN Unbound
    ELSE IF m[proteins[Len(proteins)]] # None
        THEN region_name_of(m[proteins[Len(proteins)]])
    ELSE last_region_name(SubSeq(proteins, 1, Len(proteins) - 1), m)

WithMap(res, m) == [err |-> res.err, tab |-> res.tab, rmap |-> m]

NoSubset == [kind |-> "None", items |-> <<>>, n |-> 0]
PercentPath(protein, continent) ==
    [kind |-> "Percent", protein |-> protein, continent |-> continent]
FrequencyPath(protein, continent) ==
    [kind |-> "Frequency", protein |-> protein, continent |-> continent]

\* the first error raised while the proteins are processed in order
FirstErr(parts) ==
    LET bad == {i \in DOMAIN parts : parts[i].err # ""}
    IN IF bad = {} THEN "" ELSE parts[CHOOSE i \in bad : \A j \in bad : i <= j].err

Tabs(parts) == [i \in DOMAIN parts |-> parts[i].tab]

(***************************************************************************)
(* aggregate_TS.                                                           *)
(***************************************************************************)
first_row_dropped_two(TS) == drop_first(TS, 2)

set_region_dash_skipped(TS, region_name) == TS

\* TS[region_name]="-"
set_region_dash(TS, region_name) ==
    [TS EXCEPT !.cols = @ \cup {region_name},
               !.rows = [i \in DOMAIN TS.rows |-> [TS.rows[i] EXCEPT !.Region = "-"]]]

\* TS=TS[1:]
first_row_dropped(TS) == drop_first(TS, 1)

\* lines 342-384, one turn of the loop
aggregate_TS_one(protein, path, region_name, no_regions, continent, position) ==
    LET TS0 == prepare_TS(PercentPath(protein, continent), TRUE, protein, NoSubset, FALSE).tab
        TS1 == first_row_dropped(TS0)
        withregion == add_region_column(TS1, region_name, path)
        plain == IF ~position
                    THEN drop_column(code_region_index(TS1, None, protein), "Position")
                 ELSE set_protein(TS1, protein)
    IN IF path # None
          THEN IF ~position
                  THEN Ok(drop_column(code_region_index(withregion, region_name, protein),
                                      "Position"))
               ELSE Ok(set_protein(withregion, protein))
       ELSE IF ~no_regions /\ position
          THEN IF region_name = Unbound THEN Fail("UnboundLocalError")
               ELSE Ok(set_region_dash(plain, region_name))
       ELSE Ok(plain)

concat_reversed(tables) ==
    concat([i \in DOMAIN tables |-> tables[Len(tables) + 1 - i]])

aggregate_TS_parts(proteins, m, region_name, no_regions, continent, position) ==
    [i \in DOMAIN proteins |->
        aggregate_TS_one(proteins[i], m[proteins[i]], region_name, no_regions,
                         continent, position)]

aggregate_TS(proteins, region_paths, continent, position) ==
    LET no_regions == region_paths.kind = "None"
        m0 == IF no_regions THEN [p \in Range(proteins) |-> None] ELSE region_paths.m
        m == check_region_paths(proteins, m0)
        missing == {p \in Range(proteins) : p \notin DOMAIN m}
        region_name == IF no_regions THEN Unbound ELSE last_region_name(proteins, m)
        parts == aggregate_TS_parts(proteins, m, region_name, no_regions, continent, position)
    IN IF missing # {} THEN WithMap(Fail("KeyError"), m)
       ELSE IF FirstErr(parts) # "" THEN WithMap(Fail(FirstErr(parts)), m)
       ELSE WithMap(Ok(concat(Tabs(parts))), m)

(***************************************************************************)
(* aggregate_codes.                                                        *)
(***************************************************************************)
LongTypes ==
    [x \in {"sub", "ins", "del", "ext", "delins"} |->
        CASE x = "sub" -> "Substitution"
          [] x = "ins" -> "Insertion"
          [] x = "del" -> "Deletion"
          [] x = "ext" -> "Extension"
          [] x = "delins" -> "Insertion-Deletion"]

\* the long form, or the ValueError long_types raises
long_types(x) ==
    IF x \in DOMAIN LongTypes THEN [err |-> "", val |-> LongTypes[x]]
    ELSE [err |-> "ValueError", val |-> NullStr]

apply_long_types_known(codes) ==
    Ok([codes EXCEPT !.rows = [i \in DOMAIN codes.rows |->
            [codes.rows[i] EXCEPT !.Type = long_types(codes.rows[i].Type).val]]])

\* codes["Type"]=codes["Type"].apply(long_types)
apply_long_types(codes) ==
    IF \E i \in DOMAIN codes.rows : long_types(codes.rows[i].Type).err # ""
        THEN Fail("ValueError")
    ELSE Ok([codes EXCEPT !.rows = [i \in DOMAIN codes.rows |->
                [codes.rows[i] EXCEPT !.Type = long_types(codes.rows[i].Type).val]]])

\* steps B/H: the region column, or the column of dashes
region_or_dashes_nodash(codes, has_map, path, region_name) ==
    IF ~has_map THEN codes
    ELSE IF path # None THEN add_region_column(codes, region_name, path)
    ELSE codes

region_or_dashes(codes, has_map, path, region_name) ==
    IF ~has_map THEN codes
    ELSE IF path # None THEN add_region_column(codes, region_name, path)
    ELSE add_dashes(codes, region_name)

\* steps C/I: the "Code" column rewritten as a label
format_codes(codes, has_map, path, region_labels, protein) ==
    [codes EXCEPT !.rows = [i \in DOMAIN codes.rows |->
        [codes.rows[i] EXCEPT !.Code =
            IF region_labels /\ has_map /\ path # None
                THEN display_region_and_protein(codes.rows[i].Code, codes.rows[i].Region,
                                                protein)
            ELSE display_protein(codes.rows[i].Code, protein)]]]

\* steps E-F / J-I
finish_codes(codes, drop_position, add_protein, protein) ==
    LET c1 == IF drop_position THEN drop_column(codes, "Position") ELSE codes
    IN IF add_protein THEN set_protein(c1, protein) ELSE c1

\* lines 447-484, one turn of the loop of the Global path
aggregate_codes_global_one(protein, has_map, m, region_name, region_labels, drop_position, add_protein) ==
    LET path == IF has_map THEN m[protein] ELSE None
        codes1 == region_or_dashes(read_codes(protein), has_map, path, region_name)
        codes2 == format_codes(codes1, has_map, path, region_labels, protein)
        typed == apply_long_types(codes2)
    IN IF has_map /\ protein \notin DOMAIN m THEN Fail("KeyError")
       ELSE IF typed.err # "" THEN typed
       ELSE Ok(finish_codes(typed.tab, drop_position, add_protein, protein))

\* steps 2.B-2.G: the continent's sums and percentages joined to the catalog
continent_codes(protein, continent) ==
    LET TSF == prepare_TS(FrequencyPath(protein, continent), FALSE, protein, NoSubset, TRUE).tab
        codes == read_codes(protein)
        total == SumSeq(TSF.rows[1].w)
        variants == drop_first(TSF, 2)
        known == SelectIdx([i \in DOMAIN variants.rows |-> variants.rows[i].idx.s],
                           {codes.rows[j].Code : j \in DOMAIN codes.rows})
        cat(k) == codes.rows[CHOOSE j \in DOMAIN codes.rows :
                                /\ codes.rows[j].Code = k
                                /\ \A h \in DOMAIN codes.rows :
                                      codes.rows[h].Code = k => j <= h]
    IN [cols |-> {"Code", "Percentage", "Type", "Position", "Frequency"}, iname |-> "",
        rows |-> [i \in DOMAIN known |->
            LET r == variants.rows[known[i]]
            IN [r EXCEPT !.idx = RangeIdx(i - 1), !.Code = r.idx.s, !.w = NullW,
                         !.Percentage = [num |-> SumSeq(r.w), den |-> total],
                         !.Frequency = SumSeq(r.w),
                         !.Type = cat(r.idx.s).Type,
                         !.Position = cat(r.idx.s).Position]]]

\* lines 496-563, one turn of the loop of the continent-specific path
aggregate_codes_continent_one(protein, continent, has_map, m, region_name, region_labels, drop_position, add_protein) ==
    LET typed == apply_long_types(continent_codes(protein, continent))
        path == m[protein]
        codes1 == region_or_dashes(typed.tab, has_map, IF has_map THEN path ELSE None,
                                   region_name)
        codes2 == format_codes(codes1, has_map, IF has_map THEN path ELSE None,
                               region_labels, protein)
    IN IF typed.err # "" THEN typed
       ELSE IF has_map /\ protein \notin DOMAIN m THEN Fail("KeyError")
       ELSE Ok(finish_codes(codes2, drop_position, add_protein, protein))

\* the first error of the loop, or the concatenation of its tables
aggregate_codes_result(parts, m, continent, parent_TS_dir) ==
    IF continent # "Global" /\ parent_TS_dir = "" THEN WithMap(Fail("ValueError"), m)
    ELSE IF FirstErr(parts) # "" THEN WithMap(Fail(FirstErr(parts)), m)
    ELSE WithMap(Ok(concat(Tabs(parts))), m)

aggregate_codes_parts(proteins, has_map, m, region_name, continent, region_labels, drop_position, add_protein) ==
    [i \in DOMAIN proteins |->
        IF continent = "Global"
            THEN aggregate_codes_global_one(proteins[i], has_map, m, region_name,
                    region_labels, drop_position, add_protein)
        ELSE aggregate_codes_continent_one(proteins[i], continent, has_map, m,
                    region_name, region_labels, drop_position, add_protein)]

\* the map the loop reads: completed on the Global path only
aggregate_codes_map(proteins, region_paths, continent) ==
    IF MapTruthy(region_paths) /\ continent = "Global"
        THEN check_region_paths(proteins, region_paths.m)
    ELSE region_paths.m

\* parent_TS_dir is "" when it is not passed
aggregate_codes(proteins, region_paths, region_name, continent, parent_TS_dir, region_labels, drop_position, add_protein) ==
    aggregate_codes_result(
        aggregate_codes_parts(proteins, MapTruthy(region_paths),
                              aggregate_codes_map(proteins, region_paths, continent),
                              region_name, continent, region_labels, drop_position, add_protein),
        aggregate_codes_map(proteins, region_paths, continent), continent, parent_TS_dir)

(***************************************************************************)
(* prepare_top_n.  A rank value is a fraction [num, den], den > 0.         *)
(* sort_values uses quicksort, which promises no order among equal values: *)
(* ties is the order the sort leaves them in, "stable" or "reversed".      *)
(***************************************************************************)
Gt(a, b) == a.num * b.den > b.num * a.den
Eq(a, b) == a.num * b.den = b.num * a.den

Before(vals, ties, a, b) ==
    \/ Gt(vals[a], vals[b])
    \/ Eq(vals[a], vals[b]) /\ (IF ties = "stable" THEN a < b ELSE a > b)

RECURSIVE sort_insert(_, _, _, _)
sort_insert(vals, ties, x, sorted) ==
    IF sorted = <<>> THEN <<x>>
    ELSE IF Before(vals, ties, x, Head(sorted)) THEN <<x>> \o sorted
    ELSE <<Head(sorted)>> \o sort_insert(vals, ties, x, Tail(sorted))

RECURSIVE sort_upto(_, _, _)
sort_upto(vals, ties, k) ==
    IF k = 0 THEN <<>> ELSE sort_insert(vals, ties, k, sort_upto(vals, ties, k - 1))

sort_ascending(vals, ties) ==
    LET d == sort_upto(vals, ties, Len(vals))
    IN [i \in DOMAIN d |-> d[Len(d) + 1 - i]]

\* sort_values(ascending=False): the positions of vals in their sorted order
sort_descending(vals, ties) == sort_upto(vals, ties, Len(vals))

head_at_least_one(s, n) == SubSeq(s, 1, IF Len(s) = 0 THEN 0 ELSE IF n = 0 THEN 1
                                            ELSE IF n < Len(s) THEN n ELSE Len(s))

\* x[0:n] for n >= 0
head(s, n) == SubSeq(s, 1, IF n < Len(s) THEN n ELSE Len(s))

\* TS[TS.index.isin(keys)]
filter_isin(TS, keys) ==
    LET keep == SelectIdx([i \in DOMAIN TS.rows |-> TS.rows[i].idx], Range(keys))
    IN [TS EXCEPT !.rows = [i \in DOMAIN keep |-> TS.rows[keep[i]]]]

reindex_skipped(TS, keys) == Ok(TS)

\* TS.reindex(keys): the rows in the order of keys; a key the index does not
\* hold gives a row of missing values
reindex(TS, keys) ==
    IF \E i, j \in DOMAIN TS.rows : i # j /\ TS.rows[i].idx = TS.rows[j].idx
        THEN Fail("ValueError")
    ELSE Ok([TS EXCEPT !.rows = [i \in DOMAIN keys |->
                IF \E j \in DOMAIN TS.rows : TS.rows[j].idx = keys[i]
                    THEN TS.rows[CHOOSE j \in DOMAIN TS.rows : TS.rows[j].idx = keys[i]]
                ELSE [BlankRow EXCEPT !.idx = keys[i]]]])

TopResult(res, top, reads) ==
    [err |-> res.err, tab |-> res.tab, top |-> top, reads |-> reads]

CatalogPath(protein) == [kind |-> "Catalog", protein |-> protein, continent |-> ""]

\* the selected keys with their rank values, from the ranked rows
TopOf(rows, vals, order, n) ==
    [i \in DOMAIN head(order, n) |->
        [key |-> rows[order[i]].key, val |-> vals[order[i]],
         gp |-> rows[order[i]].gp, gc |-> rows[order[i]].gc]]

Keys(top) == [i \in DOMAIN top |-> top[i].key]

\* lines 626-630 and 636-641: the aggregate code table sorted by "Percentage"
rank_by_percentage(code_ag, ties, n) ==
    LET rows == [i \in DOMAIN code_ag.rows |->
                    [key |-> LabelIdx(code_ag.rows[i].Code), gp |-> code_ag.rows[i].gp,
                     gc |-> code_ag.rows[i].gc]]
        vals == [i \in DOMAIN code_ag.rows |-> code_ag.rows[i].Percentage]
    IN TopOf(rows, vals, sort_descending(vals, ties), n)

\* lines 630 and 644: the rows of TS whose key is selected, in rank order
select_top(TS, top, reads) ==
    TopResult(reindex(filter_isin(TS, Keys(top)), Keys(top)), top, reads)

\* lines 624-644, given the two aggregate tables
prepare_top_n_ranked(TS, code_ag, ties, n, reads) ==
    IF TS.err # "" THEN TopResult(TS, <<>>, reads)
    ELSE IF code_ag.err # "" THEN TopResult(code_ag, <<>>, reads)
    ELSE select_top(TS.tab, rank_by_percentage(code_ag.tab, ties, n), reads)

\* line 327, run by aggregate_TS on the caller's dictionary
filled_paths(protein, region_path) ==
    IF MapTruthy(region_path) THEN DictMap(check_region_paths(protein, region_path.m))
    ELSE region_path

\* lines 602-644
prepare_top_n_aggregate(protein, continent, n, region_path, by_continent, ties) ==
    IF MapTruthy(region_path) /\ region_path.kind # "dict"
        THEN TopResult(Fail("ValueError"), <<>>, {})
    ELSE prepare_top_n_ranked(
             aggregate_TS(protein, filled_paths(protein, region_path), continent, FALSE),
             aggregate_codes(protein, filled_paths(protein, region_path), "Region",
                             IF by_continent THEN continent ELSE "Global",
                             IF by_continent THEN "../Time_Series" ELSE "",
                             TRUE, TRUE, FALSE),
             ties, n,
             {PercentPath(protein[i], continent) : i \in DOMAIN protein}
                 \cup {CatalogPath(protein[i]) : i \in DOMAIN protein}
                 \cup {FrequencyPath(protein[i], continent) :
                          i \in {j \in DOMAIN protein : by_continent /\ continent # "Global"}})

\* lines 704-707: the row sums of the frequency table, sorted
rank_by_sums(TSF, ties, n) ==
    LET rows == [i \in DOMAIN TSF.rows |->
                    [key |-> TSF.rows[i].idx, gp |-> TSF.rows[i].gp, gc |-> TSF.rows[i].gc]]
        vals == [i \in DOMAIN TSF.rows |-> [num |-> SumSeq(TSF.rows[i].w), den |-> 1]]
    IN TopOf(rows, vals, sort_descending(vals, ties), n)

rank_by_frequency_unsorted(codes, ties, n, region_path) ==
    TopOf([i \in DOMAIN codes.rows |->
              [key |-> LabelIdx(codes.rows[i].Code), gp |-> codes.rows[i].gp,
               gc |-> codes.rows[i].gc]],
          [i \in DOMAIN codes.rows |-> [num |-> codes.rows[i].Frequency, den |-> 1]],
          [i \in DOMAIN codes.rows |-> i], n)

\* lines 718-724: the catalog sorted by "Frequency", labelled when regions are given
rank_by_frequency(codes, ties, n, region_path) ==
    LET vals == [i \in DOMAIN codes.rows |-> [num |-> codes.rows[i].Frequency, den |-> 1]]
        regioned == IF MapTruthy(region_path)
                       THEN add_region_column(codes, "Region", region_path.s)
                    ELSE codes
        rows == [i \in DOMAIN codes.rows |->
                    [key |-> LabelIdx(IF MapTruthy(region_path)
                                         THEN display_region(regioned.rows[i].Code,
                                                             regioned.rows[i].Region)
                                      ELSE codes.rows[i].Code),
                     gp |-> codes.rows[i].gp, gc |-> codes.rows[i].gc]]
    IN TopOf(rows, vals, sort_descending(vals, ties), n)

\* lines 647-730; nuisance is what DataFrame.sum(axis=1) does with a column of
\* strings: "drop" leaves it out, "raise" is a TypeError
prepare_top_n_single(protein, continent, n, region_path, by_continent, drop_position, ties, nuisance) ==
    LET TS0 == prepare_TS(PercentPath(protein, continent), TRUE, protein, NoSubset, FALSE).tab
        TS1 == IF MapTruthy(region_path)
                  THEN code_region_index(add_region_column(TS0, "Region", region_path.s),
                                         "Region", None)
               ELSE index_by_code(TS0)
        TS == IF drop_position THEN drop_column(TS1, "Position") ELSE TS1
        TSF0 == prepare_TS(FrequencyPath(protein, continent), TRUE, protein, NoSubset, TRUE).tab
        TSF1 == IF MapTruthy(region_path)
                   THEN code_region_index(add_region_column(TSF0, "Region", region_path.s),
                                          "Region", None)
                ELSE TSF0
        TSF == drop_first(drop_column(TSF1, "Position"), 2)
        top == IF by_continent THEN rank_by_sums(TSF, ties, n)
               ELSE rank_by_frequency(read_codes(protein), ties, n, region_path)
        reads == {PercentPath(protein, continent), CatalogPath(protein)}
                    \cup (IF by_continent THEN {FrequencyPath(protein, continent)} ELSE {})
    IN IF MapTruthy(region_path) /\ region_path.kind # "str"
          THEN TopResult(Fail("ValueError"), <<>>, {})
       ELSE IF by_continent /\ "Code" \in TSF.cols /\ nuisance = "raise"
          THEN TopResult(Fail("TypeError"), <<>>, reads)
       ELSE TopResult(reindex(filter_isin(TS, Keys(top)), Keys(top)), top, reads)

prepare_top_n_by_type(protein, continent, n, aggregate, region_path, by_continent, drop_position, ties, nuisance) ==
    IF protein.kind = "list"
        THEN prepare_top_n_aggregate(protein.l, continent, n, region_path, by_continent, ties)
    ELSE IF protein.kind = "str"
        THEN prepare_top_n_single(protein.s, continent, n, region_path, by_continent,
                                  drop_position, ties, nuisance)
    ELSE TopResult(Fail("ValueError"), <<>>, {})

\* the caller's region_path object after the call: line 610 for a non-empty
\* dictionary, line 327 of aggregate_TS for an empty one, both before any file
\* is read; every other call leaves the object alone
prepare_top_n_paths(protein, aggregate, region_path) ==
    IF aggregate /\ protein.kind = "list" /\ region_path.kind = "dict"
        THEN DictMap(check_region_paths(protein.l, region_path.m))
    ELSE region_path

WithPaths(res, paths) ==
    [err |-> res.err, tab |-> res.tab, top |-> res.top, reads |-> res.reads, rmap |-> paths]

\* protein is [kind, l, s]: a list l, a string s, or another type
prepare_top_n(protein, continent, n, aggregate, region_path, by_continent, drop_position, ties, nuisance) ==
    IF aggregate /\ protein.kind = "list"
        THEN prepare_top_n_aggregate(protein.l, continent, n, region_path, by_continent, ties)
    ELSE IF ~aggregate /\ protein.kind = "str"
        THEN prepare_top_n_single(protein.s, continent, n, region_path, by_continent,
                                  drop_position, ties, nuisance)
    ELSE TopResult(Fail("ValueError"), <<>>, {})

(***************************************************************************)
(* The files.  env.cat[protein] is the protein's variants-by-code catalog, *)
(* env.ts[path] a percentage or frequency table (row 1 total genomes, row  *)
(* 2 zero mutations, then one row per variant), env.reg[path] the regions  *)
(* of a region file.  Codes are unique within a file.                      *)
(***************************************************************************)
Variants == [p \in Proteins |-> IF p = "Spike" THEN <<"A1V", "B2W">> ELSE <<"C3X">>]
AllVariants == {"A1V", "B2W", "C3X"}
ZeroCode(p) == "Zero_Mutations_in_" \o p
TotalKey == "Total_Genomes"
ShortType == [v \in AllVariants |-> IF v = "B2W" THEN "del" ELSE "sub"]

TSPaths ==
    {PercentPath(p, c) : p \in Proteins, c \in Continents}
        \cup {FrequencyPath(p, c) : p \in Proteins, c \in Continents}

Pct(x) == [num |-> x, den |-> 100]

\* z: the catalog holds the zero-mutations row (blank Position)
Catalog(p, z, pos, fr, pc) ==
    (IF z THEN <<[Code |-> ZeroCode(p), Type |-> "sub", Position |-> NaN,
                  Frequency |-> MaxVal + 1, Percentage |-> Pct(MaxVal + 1)]>>
     ELSE <<>>)
    \o [i \in DOMAIN Variants[p] |->
          [Code |-> Variants[p][i], Type |-> ShortType[Variants[p][i]],
           Position |-> pos[Variants[p][i]], Frequency |-> fr[Variants[p][i]],
           Percentage |-> Pct(pc[Variants[p][i]])]]

Offset(path) ==
    (IF path.protein = "N" THEN 30 ELSE 0) + (IF path.continent = "Asia" THEN 5 ELSE 0)

\* a percentage table: every row differs from every other row of every table
PercentFile(path) ==
    <<[key |-> TotalKey, w |-> [k \in 1..NWeeks |-> 100]],
      [key |-> ZeroCode(path.protein), w |-> [k \in 1..NWeeks |-> 60 + Offset(path)]]>>
    \o [i \in DOMAIN Variants[path.protein] |->
          [key |-> Variants[path.protein][i],
           w |-> [k \in 1..NWeeks |-> 10 * i + Offset(path) + (IF k = 1 THEN 1 ELSE 0)]]]

\* a frequency table: fq[v] is the count of v in the first week, tot[p] the
\* total genomes of a week
FrequencyFile(path, fq, tot) ==
    <<[key |-> TotalKey, w |-> [k \in 1..NWeeks |-> tot[path.protein]]],
      [key |-> ZeroCode(path.protein), w |-> [k \in 1..NWeeks |-> 1]]>>
    \o [i \in DOMAIN Variants[path.protein] |->
          [key |-> Variants[path.protein][i],
           w |-> [k \in 1..NWeeks |->
                    IF path.continent = "Asia" /\ k = 1
                        THEN fq[Variants[path.protein][i]] ELSE 1]]]

Region(name, start, end) == [name |-> name, start |-> start, end |-> end]

DefaultPos == [v \in AllVariants |-> IF v = "A1V" THEN 1 ELSE IF v = "B2W" THEN 2 ELSE 3]
DefaultVal == [v \in AllVariants |-> IF v = "A1V" THEN 1 ELSE IF v = "B2W" THEN 0 ELSE 2]
DefaultTot == [p \in Proteins |-> 2 * MaxVal + 1]
DefaultReg ==
    [path \in RegionPaths |->
        IF path = "ref/Spike_Domain.csv"
            THEN <<Region("Head", 1, 1), Region("Tail", MaxPos, MaxPos)>>
        ELSE <<Region("Core", 1, MaxPos)>>]

MkEnv(z, pos, fr, pc, fq, tot, reg) ==
    [cat |-> [p \in Proteins |-> Catalog(p, z, pos, fr, pc)],
     ts |-> [path \in TSPaths |->
                IF path.kind = "Percent" THEN PercentFile(path)
                ELSE FrequencyFile(path, fq, tot)],
     reg |-> reg]

Idle == [op |-> "none"]
NoRet == [err |-> ""]

(***************************************************************************)
(* SpecRegion: region_checker on every catalog of at most MaxRegions       *)
(* regions with bounds in 1..MaxPos.                                       *)
(***************************************************************************)
RegionSet == {Region(n, a, b) : n \in RegionNames, a \in 1..MaxPos, b \in 1..MaxPos}
Catalogs == UNION {[1..k -> RegionSet] : k \in 0..MaxRegions}
PositionCells == (0..(MaxPos + 1)) \cup {Dash, NaN}

InitRegion ==
    /\ \E c \in Catalogs :
          env = MkEnv(TRUE, DefaultPos, DefaultVal, DefaultVal, DefaultVal, DefaultTot,
                      [DefaultReg EXCEPT !["ref/Spike_Domain.csv"] = c])
    /\ call = Idle
    /\ ret = NoRet

RegionChecker ==
    /\ call = Idle
    /\ \E position \in PositionCells :
          /\ call' = [op |-> "region_checker", position |-> position,
                      regions |-> initialize_regions("ref/Spike_Domain.csv")]
          /\ ret' = [err |-> "",
                     val |-> region_checker(position,
                                            initialize_regions("ref/Spike_Domain.csv"))]
    /\ UNCHANGED env

NextRegion == RegionChecker

SpecRegion == InitRegion /\ [][NextRegion]_vars

\* C1: region_checker returns "-" for the position "-", else the name of the
\* first region in load order whose bounds contain the position, else "Other".
FirstMatch(position, regions) ==
    {i \in DOMAIN regions :
        /\ regions[i].start <= position /\ position <= regions[i].end
        /\ \A j \in 1..(i - 1) :
              ~(regions[j].start <= position /\ position <= regions[j].end)}

C1_Classify ==
    call.op = "region_checker" =>
        IF call.position = Dash THEN ret.val = "-"
        ELSE IF FirstMatch(call.position, call.regions) # {}
            THEN \E i \in FirstMatch(call.position, call.regions) :
                    ret.val = call.regions[i].name
        ELSE ret.val = "Other"

\* a position inside the second region and the first, with different names
C1_Witness ==
    /\ call.op = "region_checker"
    /\ Len(call.regions) = 2
    /\ call.regions[1].name # call.regions[2].name
    /\ FirstMatch(call.position, call.regions) = {1}
    /\ call.regions[2].start <= call.position /\ call.position <= call.regions[2].end
    /\ ret.val = call.regions[1].name

(***************************************************************************)
(* SpecAgg: aggregate_TS and aggregate_codes on every list of distinct     *)
(* proteins and every region map, over catalogs with and without the       *)
(* zero-mutations row and every placing of the variants in 1..MaxPos.      *)
(***************************************************************************)
ProteinLists == {<<"Spike">>, <<"N">>, <<"Spike", "N">>, <<"N", "Spike">>}

PathsOf ==
    [p \in Proteins |->
        IF p = "Spike" THEN {"ref/Spike_Domain.csv"}
        ELSE {"ref/N_Domain_v2.csv", "ref/N_Subunit.csv"}]

Dicts ==
    UNION {{m \in [D -> RegionPaths \cup {None}] :
                \A p \in D : m[p] = None \/ m[p] \in PathsOf[p]} : D \in SUBSET Proteins}

RegionMaps == {NoMap} \cup {DictMap(m) : m \in Dicts}

InitAgg ==
    /\ \E z \in BOOLEAN, pos \in [AllVariants -> 1..MaxPos] :
          env = MkEnv(z, pos, DefaultVal, DefaultVal, DefaultVal, DefaultTot, DefaultReg)
    /\ call = Idle
    /\ ret = NoRet

AggregateTS ==
    /\ call = Idle
    /\ \E proteins \in ProteinLists, region_paths \in RegionMaps,
          continent \in Continents, position \in BOOLEAN :
          /\ call' = [op |-> "aggregate_TS", proteins |-> proteins,
                      region_paths |-> region_paths, continent |-> continent,
                      position |-> position]
          /\ ret' = aggregate_TS(proteins, region_paths, continent, position)
    /\ UNCHANGED env

AggregateCodes ==
    /\ call = Idle
    /\ \E proteins \in ProteinLists, region_paths \in RegionMaps,
          continent \in Continents, parent_TS_dir \in {"", "../Time_Series"},
          region_labels \in BOOLEAN, drop_position \in BOOLEAN, add_protein \in BOOLEAN :
          /\ parent_TS_dir = "" => (continent = "Global" \/ (drop_position /\ ~add_protein))
          /\ call' = [op |-> "aggregate_codes", proteins |-> proteins,
                      region_paths |-> region_paths, region_name |-> "Domain",
                      continent |-> continent, parent_TS_dir |-> parent_TS_dir,
                      region_labels |-> region_labels, drop_position |-> drop_position,
                      add_protein |-> add_protein]
          /\ ret' = aggregate_codes(proteins, region_paths, "Domain", continent,
                                    parent_TS_dir, region_labels, drop_position, add_protein)
    /\ UNCHANGED env

NextAgg == AggregateTS \/ AggregateCodes

SpecAgg == InitAgg /\ [][NextAgg]_vars

\* the protein has region data in the map of the call
HasData(p) ==
    /\ call.region_paths.kind = "dict"
    /\ p \in DOMAIN call.region_paths.m
    /\ call.region_paths.m[p] # None

Listed == Range(call.proteins)

\* the label a returned row is displayed with
Shown(r) == IF "Code" \in ret.tab.cols THEN r.Code ELSE r.idx.s

IsZeroRow(r) == r.gc = ZeroCode(r.gp)

\* C2: the zero-mutations row is displayed as the bare code by every
\* formatting path (code_region_index in aggregate_TS, the Code column of
\* aggregate_codes), with or without region data.
C2_ZeroRowBare ==
    (call.op \in {"aggregate_TS", "aggregate_codes"} /\ ret.err = "") =>
        \A i \in DOMAIN ret.tab.rows :
            IsZeroRow(ret.tab.rows[i]) => Shown(ret.tab.rows[i]) = ret.tab.rows[i].gc

\* C3: aggregate_TS with position=True and region data for at least one
\* listed protein returns a table with the region column in which no row has
\* a missing cell in any column, and the rows of proteins without region
\* data hold "-" in the region column.
C3_UniformRegionColumn ==
    (call.op = "aggregate_TS" /\ call.position /\ \E p \in Listed : HasData(p)) =>
        /\ ret.err = ""
        /\ \E name \in {"Domain", "Subunit"} :
              ret.tab.cols = {"Code", "weeks", "Position", "Protein", name}
        /\ \A i \in DOMAIN ret.tab.rows :
              LET r == ret.tab.rows[i]
              IN /\ r.Region # NullStr /\ r.Code # NullStr /\ r.Protein = r.gp
                 /\ r.Position # NaN
                 /\ ~HasData(r.gp) => r.Region = "-"

C3_Witness ==
    /\ call.op = "aggregate_TS" /\ call.position /\ ret.err = ""
    /\ call.proteins = <<"N", "Spike">>
    /\ HasData("Spike") /\ ~HasData("N")
    /\ \E i \in DOMAIN ret.tab.rows :
          ret.tab.rows[i].gp = "N" /\ ret.tab.rows[i].Region = "-"
    /\ \E i \in DOMAIN ret.tab.rows :
          ret.tab.rows[i].gp = "Spike" /\ ret.tab.rows[i].Region \in {"Head", "Tail"}

\* C4: aggregate_codes (Global path) with a non-empty region map that has no
\* region data for some listed protein returns a table with the region_name
\* column; no row has a missing cell in it and the rows of every protein
\* without region data hold "-".
C4_PartialMapDashes ==
    (/\ call.op = "aggregate_codes" /\ call.continent = "Global"
     /\ MapTruthy(call.region_paths)
     /\ \E p \in Listed : ~HasData(p)) =>
        /\ ret.err = ""
        /\ call.region_name \in ret.tab.cols
        /\ \A i \in DOMAIN ret.tab.rows :
              /\ ret.tab.rows[i].Region # NullStr
              /\ ~HasData(ret.tab.rows[i].gp) => ret.tab.rows[i].Region = "-"

C4_Witness ==
    /\ call.op = "aggregate_codes" /\ call.continent = "Global" /\ ret.err = ""
    /\ call.proteins = <<"Spike", "N">>
    /\ DOMAIN call.region_paths.m = {"Spike"} /\ HasData("Spike")
    /\ \E i \in DOMAIN ret.tab.rows :
          ret.tab.rows[i].gp = "N" /\ ret.tab.rows[i].Region = "-"
    /\ \E i \in DOMAIN ret.tab.rows :
          ret.tab.rows[i].gp = "Spike" /\ ret.tab.rows[i].Region = "Other"

\* the map with None entered for every listed protein that is not a key
Completed(proteins, m) ==
    [p \in DOMAIN m \cup Range(proteins) |-> IF p \in DOMAIN m THEN m[p] ELSE None]

\* C5: aggregate_TS with a region map that lacks a listed protein raises no
\* KeyError and returns what it returns for the same map with None entered
\* for the missing proteins.
C5_MissingKeyIsNone ==
    (/\ call.op = "aggregate_TS" /\ call.region_paths.kind = "dict"
     /\ \E p \in Listed : p \notin DOMAIN call.region_paths.m) =>
        LET full == aggregate_TS(call.proteins,
                                 DictMap(Completed(call.proteins, call.region_paths.m)),
                                 call.continent, call.position)
        IN /\ ret.err # "KeyError"
           /\ ret.err = full.err
           /\ ret.tab = full.tab

C5_Witness ==
    /\ call.op = "aggregate_TS" /\ ret.err = ""
    /\ call.proteins = <<"Spike", "N">>
    /\ call.region_paths.kind = "dict" /\ DOMAIN call.region_paths.m = {"Spike"}
    /\ HasData("Spike")
    /\ Len(ret.tab.rows) > 2

\* the rows of a time series file after the first, as <<protein, key, cells>>
FileRowsAfterFirst(path) ==
    [i \in 1..(Len(env.ts[path]) - 1) |->
        <<path.protein, env.ts[path][i + 1].key, env.ts[path][i + 1].w>>]

\* C6: the table aggregate_TS returns is, row for row, the concatenation in
\* the order of the proteins of each protein's table without its first row.
C6_ConcatInOrder ==
    (call.op = "aggregate_TS" /\ ret.err = "") =>
        [i \in DOMAIN ret.tab.rows |->
            <<ret.tab.rows[i].gp, ret.tab.rows[i].gc, ret.tab.rows[i].w>>]
        = Concat([k \in DOMAIN call.proteins |->
                    FileRowsAfterFirst(PercentPath(call.proteins[k], call.continent))])

C6_Witness ==
    /\ call.op = "aggregate_TS" /\ ret.err = ""
    /\ call.proteins = <<"N", "Spike">>
    /\ Len(ret.tab.rows) = 5
    /\ ret.tab.rows[1].gc = ZeroCode("N") /\ ret.tab.rows[3].gc = ZeroCode("Spike")
    /\ ret.tab.rows[5].gc = "B2W"

\* C7: aggregate_TS([P], {}) has the rows and cells of prepare_TS on P's file
\* without its first row, in the same order; only the index differs, which
\* holds the code as display_protein formats it.
C7_RoundTrip ==
    (/\ call.op = "aggregate_TS" /\ Len(call.proteins) = 1
     /\ call.region_paths = DictMap(EmptyDict) /\ ~call.position) =>
        LET P == call.proteins[1]
            prepared == prepare_TS(PercentPath(P, call.continent), FALSE, None, NoSubset,
                                   FALSE).tab
            rest == Tail(prepared.rows)
        IN /\ ret.err = ""
           /\ ret.tab.cols = prepared.cols \ {"Code"}
           /\ Len(ret.tab.rows) = Len(rest)
           /\ \A i \in DOMAIN rest :
                 /\ ret.tab.rows[i].w = rest[i].w
                 /\ ret.tab.rows[i].idx.s \in {rest[i].Code, P \o ": " \o rest[i].Code}

C7_Witness ==
    /\ call.op = "aggregate_TS" /\ call.proteins = <<"Spike">>
    /\ call.region_paths = DictMap(EmptyDict) /\ ~call.position /\ ret.err = ""
    /\ Len(ret.tab.rows) = 3
    /\ ret.tab.rows[1].idx.s = "Zero_Mutations_in_Spike"
    /\ ret.tab.rows[2].idx.s = "Spike: A1V"

(***************************************************************************)
(* SpecTop: prepare_top_n in every argument mode, over catalogs with and   *)
(* without the zero-mutations row and every choice in 0..MaxVal of the     *)
(* variants' catalog frequencies, catalog percentages or first-week counts *)
(* of the continent, with equal and unequal totals of the two proteins.    *)
(***************************************************************************)
Totals == {DefaultTot, [DefaultTot EXCEPT !["N"] = MaxVal + 1]}

TopEnvs ==
    {MkEnv(z, DefaultPos, x, DefaultVal, DefaultVal, DefaultTot, DefaultReg) :
        z \in BOOLEAN, x \in [AllVariants -> 0..MaxVal]}
    \cup {MkEnv(z, DefaultPos, DefaultVal, x, DefaultVal, DefaultTot, DefaultReg) :
        z \in BOOLEAN, x \in [AllVariants -> 0..MaxVal]}
    \cup {MkEnv(z, DefaultPos, DefaultVal, DefaultVal, x, tot, DefaultReg) :
        z \in BOOLEAN, x \in [AllVariants -> 0..MaxVal], tot \in Totals}

ListArg(l) == [kind |-> "list", l |-> l, s |-> ""]
StrArg(p) == [kind |-> "str", l |-> <<>>, s |-> p]
TupleArg(l) == [kind |-> "other", l |-> l, s |-> ""]

ProteinArgs ==
    {ListArg(l) : l \in ProteinLists} \cup {StrArg(p) : p \in Proteins}
        \cup {TupleArg(<<"Spike", "N">>)}

TopMaps ==
    {NoMap, DictMap(EmptyDict), DictMap([p \in {"Spike"} |-> "ref/Spike_Domain.csv"]),
     DictMap([p \in Proteins |-> IF p = "Spike" THEN "ref/Spike_Domain.csv"
                                 ELSE "ref/N_Domain_v2.csv"]),
     StrMap("ref/Spike_Domain.csv"), StrMap("ref/N_Domain_v2.csv")}

\* the arguments of the calls made
TopCall(c) ==
    \* a region file of the protein itself
    /\ (c.protein.kind = "str" /\ c.region_path.kind = "str") =>
          c.region_path.s \in PathsOf[c.protein.s]
    \* arguments a branch does not read are left at their defaults
    /\ (c.aggregate \/ c.protein.kind # "str") => c.drop_position
    /\ (c.aggregate \/ c.protein.kind # "str" \/ ~c.by_continent
            \/ MapTruthy(c.region_path)) => c.nuisance = "drop"
    /\ ((c.aggregate /\ c.protein.kind # "list") \/ (~c.aggregate /\ c.protein.kind # "str")) =>
          /\ c.region_path = NoMap /\ c.ties = "stable" /\ c.continent = "Global"
          /\ ~c.by_continent
    /\ (c.aggregate /\ c.region_path.kind = "str") =>
          c.region_path.s = "ref/Spike_Domain.csv" /\ c.ties = "stable"
    /\ (~c.aggregate /\ c.region_path.kind = "dict") => c.ties = "stable"
    /\ ~c.drop_position => (c.ties = "stable" /\ c.continent = "Global")

InitTop ==
    /\ env \in TopEnvs
    /\ call = Idle
    /\ ret = NoRet

PrepareTopN ==
    /\ call = Idle
    /\ \E protein \in ProteinArgs, continent \in Continents, n \in 0..MaxN,
          aggregate \in BOOLEAN, region_path \in TopMaps, by_continent \in BOOLEAN,
          drop_position \in BOOLEAN, ties \in {"stable", "reversed"},
          nuisance \in {"drop", "raise"} :
          LET c == [op |-> "prepare_top_n", protein |-> protein, continent |-> continent,
                    n |-> n, aggregate |-> aggregate, region_path |-> region_path,
                    by_continent |-> by_continent, drop_position |-> drop_position,
                    ties |-> ties, nuisance |-> nuisance]
          IN /\ TopCall(c)
             /\ call' = c
             /\ ret' = WithPaths(prepare_top_n(protein, continent, n, aggregate, region_path,
                                               by_continent, drop_position, ties, nuisance),
                                 prepare_top_n_paths(protein, aggregate, region_path))
    /\ UNCHANGED env

NextTop == PrepareTopN

SpecTop == InitTop /\ [][NextTop]_vars

ModeOk ==
    \/ call.aggregate /\ call.protein.kind = "list"
    \/ ~call.aggregate /\ call.protein.kind = "str"

RegionPathOk ==
    \/ ~MapTruthy(call.region_path)
    \/ call.aggregate /\ call.region_path.kind = "dict"
    \/ ~call.aggregate /\ call.region_path.kind = "str"

\* C8: prepare_top_n goes on to load tables exactly when aggregate=True comes
\* with a list or aggregate=False with a string; every other combination
\* raises ValueError with no file read and no table returned.
C8_TwoModes ==
    call.op = "prepare_top_n" =>
        /\ ~ModeOk => (ret.err = "ValueError" /\ ret.reads = {} /\ ret.tab.rows = <<>>)
        /\ (ModeOk /\ RegionPathOk) => (ret.reads # {} /\ ret.err \in {"", "TypeError"})

C8_Witness ==
    /\ call.op = "prepare_top_n"
    /\ call.aggregate /\ call.protein.kind = "str" /\ call.n > 0
    /\ ret.err = "ValueError" /\ ret.reads = {}

(***************************************************************************)
(* What the ranking of a prepare_top_n call is measured against.  A        *)
(* candidate is <<protein, raw code>> of a file row.                       *)
(***************************************************************************)
TopProteins == IF call.protein.kind = "list" THEN Range(call.protein.l) ELSE {call.protein.s}

FileRow(file, k) == file[CHOOSE i \in DOMAIN file : file[i].key = k]
CatRow(p, k) == env.cat[p][CHOOSE i \in DOMAIN env.cat[p] : env.cat[p][i].Code = k]

\* the rows of the continent's frequency tables after the two synthetic rows
FrequencyCandidates ==
    UNION {{<<p, env.ts[FrequencyPath(p, call.continent)][i].key>> :
                i \in 3..Len(env.ts[FrequencyPath(p, call.continent)])} : p \in TopProteins}

CatalogCandidates ==
    UNION {{<<p, env.cat[p][i].Code>> : i \in DOMAIN env.cat[p]} : p \in TopProteins}

SummedFrequency(c) ==
    [num |-> SumSeq(FileRow(env.ts[FrequencyPath(c[1], call.continent)], c[2]).w), den |-> 1]

CatalogFrequency(c) == [num |-> CatRow(c[1], c[2]).Frequency, den |-> 1]

CatalogPercentage(c) == CatRow(c[1], c[2]).Percentage

\* the summed frequency over the sum of the total-genomes row of the same table
ContinentPercentage(c) ==
    [num |-> SummedFrequency(c).num,
     den |-> SumSeq(env.ts[FrequencyPath(c[1], call.continent)][1].w)]

Selected == {<<ret.top[i].gp, ret.top[i].gc>> : i \in DOMAIN ret.top}

\* ret.top is the first n of the candidates in descending order of rank
RankedBy(cands, rank(_)) ==
    /\ Selected \subseteq cands
    /\ Len(ret.top) = (IF call.n < Cardinality(cands) THEN call.n ELSE Cardinality(cands))
    /\ Cardinality(Selected) = Len(ret.top)
    /\ \A i, j \in DOMAIN ret.top :
          i < j => ~Gt(rank(<<ret.top[j].gp, ret.top[j].gc>>),
                       rank(<<ret.top[i].gp, ret.top[i].gc>>))
    /\ \A c \in cands \ Selected : \A s \in Selected : ~Gt(rank(c), rank(s))

TopDone == call.op = "prepare_top_n" /\ ret.err = ""

\* C9 as stated: in both modes the ranking is by summed frequency in the
\* continent's frequency table (by_continent=True) and by the catalog's
\* Frequency field (by_continent=False).
C9_Original ==
    TopDone =>
        IF call.by_continent THEN RankedBy(FrequencyCandidates, SummedFrequency)
        ELSE RankedBy(CatalogCandidates, CatalogFrequency)

\* C9 amended: the single-protein mode ranks by summed frequency in the
\* continent's frequency table without its first two rows (by_continent=True)
\* and by the catalog's Frequency (by_continent=False); the aggregate mode
\* ranks by Percentage: for by_continent=True and a continent other than
\* "Global" the summed frequency divided by the protein's total-genomes sum,
\* otherwise the catalog's Percentage field.
C9_RankSource ==
    TopDone =>
        IF ~call.aggregate
            THEN IF call.by_continent THEN RankedBy(FrequencyCandidates, SummedFrequency)
                 ELSE RankedBy(CatalogCandidates, CatalogFrequency)
        ELSE IF call.by_continent /\ call.continent # "Global"
            THEN RankedBy(FrequencyCandidates, ContinentPercentage)
        ELSE RankedBy(CatalogCandidates, CatalogPercentage)

\* two proteins whose order by continent percentage is not their order by
\* summed frequency, and a single-protein ranking of two variants
C9_Witness ==
    /\ TopDone /\ call.aggregate /\ call.by_continent /\ call.continent = "Asia"
    /\ Len(ret.top) = 2
    /\ Gt(SummedFrequency(<<ret.top[2].gp, ret.top[2].gc>>),
          SummedFrequency(<<ret.top[1].gp, ret.top[1].gc>>))
    /\ Gt(ret.top[1].val, ret.top[2].val)

\* C10: the rows of the returned matrix are labelled, in order, by the
\* selected keys, and the keys' rank values do not increase.
C10_RowsInRankOrder ==
    TopDone =>
        /\ Len(ret.tab.rows) = Len(ret.top)
        /\ \A i \in DOMAIN ret.top : ret.tab.rows[i].idx = ret.top[i].key
        /\ \A i, j \in DOMAIN ret.top : i < j => ~Gt(ret.top[j].val, ret.top[i].val)

\* the second variant of the file outranks the first, and both rows are
\* rows of the matrix
C10_Witness ==
    /\ TopDone /\ ~call.aggregate /\ call.protein.s = "Spike" /\ ~call.by_continent
    /\ Len(ret.tab.rows) = 2
    /\ ret.tab.rows[1].gc = "B2W" /\ ret.tab.rows[2].gc = "A1V"
    /\ Gt(ret.top[1].val, ret.top[2].val)

(***************************************************************************)
(* The table a prepare_top_n call ranks: the continent's frequency rows    *)
(* when the continent is looked at, the catalog rows otherwise.            *)
(***************************************************************************)
RanksContinent == call.by_continent /\ (~call.aggregate \/ call.continent # "Global")

Candidates == IF RanksContinent THEN FrequencyCandidates ELSE CatalogCandidates

Min(a, b) == IF a < b THEN a ELSE b

\* the error of the same call made with another n
ErrWith(n) ==
    prepare_top_n(call.protein, call.continent, n, call.aggregate, call.region_path,
                  call.by_continent, call.drop_position, call.ties, call.nuisance).err

\* C11: a prepare_top_n call that returns has min(n, number of ranked
\* variants) rows; n = 0 gives the empty table, and raises nothing that the
\* same call with a positive n does not raise.
C11_RowCount ==
    call.op = "prepare_top_n" =>
        /\ TopDone => Len(ret.tab.rows) = Min(call.n, Cardinality(Candidates))
        /\ (TopDone /\ call.n = 0) => ret.tab.rows = <<>>
        /\ call.n = 0 => ret.err = ErrWith(MaxN)

\* n = 0 on a call that returns rows for n = 1
C11_Witness ==
    /\ TopDone /\ call.n = 0 /\ ret.tab.rows = <<>>
    /\ Cardinality(Candidates) = 2 /\ ErrWith(1) = ""

(***************************************************************************)
(* The place of a candidate in the table that is ranked: proteins in list  *)
(* order, each protein's rows in file order.                               *)
(***************************************************************************)
ProteinPlace(p) ==
    IF call.protein.kind = "list"
        THEN CHOOSE i \in DOMAIN call.protein.l : call.protein.l[i] = p
    ELSE 1

RowPlace(c) ==
    IF RanksContinent
        THEN CHOOSE i \in DOMAIN env.ts[FrequencyPath(c[1], call.continent)] :
                 env.ts[FrequencyPath(c[1], call.continent)][i].key = c[2]
    ELSE CHOOSE i \in DOMAIN env.cat[c[1]] : env.cat[c[1]][i].Code = c[2]

PlacedBefore(c, d) ==
    \/ ProteinPlace(c[1]) < ProteinPlace(d[1])
    \/ ProteinPlace(c[1]) = ProteinPlace(d[1]) /\ RowPlace(c) < RowPlace(d)

\* C12: selected variants of equal rank value appear in the order they had
\* in the ranked table.
C12_StableTies ==
    TopDone =>
        \A i, j \in DOMAIN ret.top :
            (i < j /\ Eq(ret.top[i].val, ret.top[j].val)) =>
                PlacedBefore(<<ret.top[i].gp, ret.top[i].gc>>, <<ret.top[j].gp, ret.top[j].gc>>)

(***************************************************************************)
(* SpecLoad: prepare_TS, code_region_index and aggregate_codes on files    *)
(* whose counts, totals and mutation types vary.                           *)
(***************************************************************************)
ShortTypes == {"sub", "ins", "del", "ext", "delins"}

\* the catalogs of e with Type column ty
WithTypes(e, ty) ==
    [e EXCEPT !.cat = [p \in Proteins |-> [i \in DOMAIN e.cat[p] |->
        [e.cat[p][i] EXCEPT !.Type = IF e.cat[p][i].Code \in DOMAIN ty
                                        THEN ty[e.cat[p][i].Code] ELSE @]]]]

TypeColumns ==
    {ty \in [AllVariants -> ShortTypes \cup {"foo"}] :
        ty["B2W"] \in {"del", "foo"} /\ ty["C3X"] \in {"sub", "foo"}}

LoadEnvs ==
    {WithTypes(MkEnv(z, DefaultPos, DefaultVal, DefaultVal, DefaultVal, DefaultTot,
                     DefaultReg), ty) : z \in BOOLEAN, ty \in TypeColumns}
    \cup {MkEnv(z, DefaultPos, DefaultVal, DefaultVal, fq, tot, DefaultReg) :
            z \in BOOLEAN, fq \in [AllVariants -> 0..MaxVal], tot \in Totals}

ListOf(items) == [kind |-> "list", items |-> items, n |-> 0]
TupleOf(items) == [kind |-> "tuple", items |-> items, n |-> 0]
IntOf(n) == [kind |-> "int", items |-> <<>>, n |-> n]

\* the values passed as subset_codes
SubsetArgs ==
    {NoSubset, IntOf(0), IntOf(5), TupleOf(<<>>), TupleOf(<<"A1V">>)}
        \cup {ListOf(l) : l \in {<<>>, <<"A1V">>, <<"B2W", "A1V">>, <<"D4Y">>,
                                 <<"C3X", TotalKey>>, <<"B2W", "D4Y", "B2W">>}}

InitLoad ==
    /\ env \in LoadEnvs
    /\ call = Idle
    /\ ret = NoRet

PrepareTS ==
    /\ call = Idle
    /\ \E TS_path \in {t \in TSPaths : t.continent = "Asia"}, position \in BOOLEAN,
          var_by_code_path \in Proteins \cup {None}, subset_codes \in SubsetArgs,
          to_index \in BOOLEAN :
          /\ call' = [op |-> "prepare_TS", TS_path |-> TS_path, position |-> position,
                      var_by_code_path |-> var_by_code_path,
                      subset_codes |-> subset_codes, reindex |-> to_index]
          /\ ret' = prepare_TS(TS_path, position, var_by_code_path, subset_codes, to_index)
    /\ UNCHANGED env

code_region_index_silent(region_colname, protein) == FALSE

\* lines 237-240: the warning of the branch taken when neither is given
code_region_index_warns(region_colname, protein) ==
    ~(protein # None /\ region_colname # None)
        /\ ~(protein # None) /\ ~(region_colname # None)

\* the table handed to code_region_index: a percentage table with its
\* Position column and a "Region" column, of regions or of dashes
RegionTable(TS_path, region_path) ==
    LET TS == prepare_TS(TS_path, TRUE, TS_path.protein, NoSubset, FALSE).tab
    IN IF region_path = None THEN add_dashes(TS, "Region")
       ELSE add_region_column(TS, "Region", region_path)

CodeRegionIndex ==
    /\ call = Idle
    /\ \E TS_path \in {t \in TSPaths : t.continent = "Asia" /\ t.kind = "Percent"},
          region_path \in RegionPaths \cup {None}, region_colname \in {None, "Region"},
          protein \in Proteins \cup {None} :
          /\ region_path # None => region_path \in PathsOf[TS_path.protein]
          /\ call' = [op |-> "code_region_index", TS_path |-> TS_path,
                      region_path |-> region_path, region_colname |-> region_colname,
                      protein |-> protein]
          /\ ret' = [err |-> "",
                     tab |-> code_region_index(RegionTable(TS_path, region_path),
                                               region_colname, protein),
                     warned |-> code_region_index_warns(region_colname, protein)]
    /\ UNCHANGED env

LoadMaps ==
    {NoMap, DictMap([p \in {"Spike"} |-> "ref/Spike_Domain.csv"]),
     DictMap([p \in Proteins |-> IF p = "Spike" THEN "ref/Spike_Domain.csv" ELSE None])}

LoadCodes ==
    /\ call = Idle
    /\ \E proteins \in ProteinLists, region_paths \in LoadMaps,
          continent \in Continents, parent_TS_dir \in {"", "../Time_Series"},
          region_labels \in BOOLEAN, drop_position \in BOOLEAN, add_protein \in BOOLEAN :
          /\ call' = [op |-> "aggregate_codes", proteins |-> proteins,
                      region_paths |-> region_paths, region_name |-> "Domain",
                      continent |-> continent, parent_TS_dir |-> parent_TS_dir,
                      region_labels |-> region_labels, drop_position |-> drop_position,
                      add_protein |-> add_protein]
          /\ ret' = aggregate_codes(proteins, region_paths, "Domain", continent,
                                    parent_TS_dir, region_labels, drop_position, add_protein)
    /\ UNCHANGED env

NextLoad == PrepareTS \/ CodeRegionIndex \/ LoadCodes

SpecLoad == InitLoad /\ [][NextLoad]_vars

(***************************************************************************)
(* The continent-specific code table.                                      *)
(***************************************************************************)
CodesDone == call.op = "aggregate_codes" /\ ret.err = ""

\* <<protein, key>> of the rows after the first two of each listed protein's
\* frequency table that the protein's catalog lists, in order
ContinentVariants ==
    Concat([i \in DOMAIN call.proteins |->
        LET p == call.proteins[i]
            file == env.ts[FrequencyPath(p, call.continent)]
            listed == SelectIdx([j \in DOMAIN file |-> file[j].key],
                                {env.cat[p][h].Code : h \in DOMAIN env.cat[p]})
            kept == SelectSeq(listed, LAMBDA j : j > 2)
        IN [j \in DOMAIN kept |-> <<p, file[kept[j]].key>>]])

\* C13: on the continent-specific path the table has one row per variant of
\* the frequency table after its first two rows; its Frequency is the sum of
\* the variant's weekly counts, its Percentage that sum over the sum of the
\* table's first row, its Type and Position those of the catalog row with
\* the same key.
C13_ContinentTable ==
    (CodesDone /\ call.continent # "Global") =>
        /\ Len(ret.tab.rows) = Len(ContinentVariants)
        /\ \A i \in DOMAIN ContinentVariants :
              LET c == ContinentVariants[i]
                  file == env.ts[FrequencyPath(c[1], call.continent)]
                  r == ret.tab.rows[i]
              IN /\ r.gp = c[1] /\ r.gc = c[2]
                 /\ r.Frequency = SumSeq(FileRow(file, c[2]).w)
                 /\ r.Percentage = [num |-> SumSeq(FileRow(file, c[2]).w),
                                    den |-> SumSeq(file[1].w)]
                 /\ r.Type = LongTypes[CatRow(c[1], c[2]).Type]
                 /\ ~call.drop_position => r.Position = CatRow(c[1], c[2]).Position

\* two proteins with different totals, a catalog that starts with the
\* zero-mutations row, a sum that is not the catalog's Frequency
C13_Witness ==
    /\ CodesDone /\ call.continent = "Asia" /\ call.proteins = <<"Spike", "N">>
    /\ env.cat["Spike"][1].Code = ZeroCode("Spike")
    /\ Len(ret.tab.rows) = 3
    /\ ret.tab.rows[1].Frequency # CatRow("Spike", "A1V").Frequency
    /\ ret.tab.rows[1].Percentage.den # ret.tab.rows[3].Percentage.den

(***************************************************************************)
(* Mutation types.                                                         *)
(***************************************************************************)
LongName(x) ==
    CASE x = "sub" -> "Substitution"
      [] x = "ins" -> "Insertion"
      [] x = "del" -> "Deletion"
      [] x = "ext" -> "Extension"
      [] x = "delins" -> "Insertion-Deletion"
      [] OTHER -> "?"

\* a catalog of a listed protein holds a type that is not a short code
UnknownType ==
    \E i \in DOMAIN call.proteins : \E j \in DOMAIN env.cat[call.proteins[i]] :
        env.cat[call.proteins[i]][j].Type \notin ShortTypes

\* C14: long_types turns the five short codes into five different long
\* names and raises for any other value; aggregate_codes on catalogs with an
\* unrecognised type raises and returns no table, whichever protein holds it.
C14_UnknownTypeAborts ==
    /\ \A x \in ShortTypes \cup {"foo", NullStr} :
          IF x \in ShortTypes
              THEN long_types(x).err = "" /\ long_types(x).val = LongName(x)
          ELSE long_types(x).err = "ValueError"
    /\ \A x, y \in ShortTypes : long_types(x).val = long_types(y).val => x = y
    /\ (call.op = "aggregate_codes" /\ (call.continent = "Global" \/ call.parent_TS_dir # "")) =>
          /\ UnknownType => (ret.err # "" /\ ret.tab.rows = <<>>)
          /\ (UnknownType /\ ~MapTruthy(call.region_paths)) => ret.err = "ValueError"
          /\ ret.err = "" =>
                \A i \in DOMAIN ret.tab.rows :
                    ret.tab.rows[i].Type = LongName(CatRow(ret.tab.rows[i].gp,
                                                           ret.tab.rows[i].gc).Type)

\* the first protein's types are known, the second protein's are not
C14_Witness ==
    /\ call.op = "aggregate_codes" /\ call.proteins = <<"Spike", "N">>
    /\ \A j \in DOMAIN env.cat["Spike"] : env.cat["Spike"][j].Type \in ShortTypes
    /\ \E j \in DOMAIN env.cat["N"] : env.cat["N"][j].Type = "foo"
    /\ ret.err = "ValueError" /\ ret.tab.rows = <<>>

\* C15: prepare_TS asked for positions without the catalog path, and
\* aggregate_codes asked for a continent without the time series directory,
\* raise ValueError and return no table.
C15_MissingCompanion ==
    /\ (call.op = "prepare_TS" /\ call.position /\ call.var_by_code_path = None) =>
          (ret.err = "ValueError" /\ ret.tab.rows = <<>>)
    /\ (call.op = "aggregate_codes" /\ call.continent # "Global"
            /\ call.parent_TS_dir = "") =>
          (ret.err = "ValueError" /\ ret.tab.rows = <<>>)

\* positions asked for on an otherwise valid call
C15_Witness ==
    /\ call.op = "prepare_TS" /\ call.position /\ call.var_by_code_path = None
    /\ call.subset_codes = ListOf(<<"A1V">>) /\ ret.err = "ValueError"

(***************************************************************************)
(* prepare_TS against the file it reads.                                   *)
(***************************************************************************)
TSDone == call.op = "prepare_TS" /\ ret.err = ""

\* the keys of the rows of the file, and of the rows a list of keys selects
FileKeys == [i \in DOMAIN env.ts[call.TS_path] |-> env.ts[call.TS_path][i].key]
SelectedKeys(items) ==
    LET keep == SelectIdx(FileKeys, Range(items))
    IN [i \in DOMAIN keep |-> FileKeys[keep[i]]]

ReturnedKeys == [i \in DOMAIN ret.tab.rows |-> ret.tab.rows[i].gc]

\* C16 as stated: with a list passed as subset_codes the rows returned are
\* the rows of the file whose key is in the list, in file order, for every
\* list, the empty list included.
C16_SubsetExact ==
    (TSDone /\ call.subset_codes.kind = "list") =>
        ReturnedKeys = SelectedKeys(call.subset_codes.items)

\* C17 as stated: a subset_codes that is given and is not a sequence raises
\* ValueError, and a sequence never does.
C17_SequenceOrError ==
    call.op = "prepare_TS" =>
        /\ call.subset_codes.kind = "int" => ret.err = "ValueError"
        /\ (call.subset_codes.kind \in {"list", "tuple"}
                /\ ~(call.position /\ call.var_by_code_path = None)) => ret.err = ""

\* C18 as stated: with reindex=True the row index is the key and there is no
\* "Code" column, whatever the other options.
C18_KeyIsIndex ==
    (TSDone /\ call.reindex) =>
        /\ "Code" \notin ret.tab.cols
        /\ \A i \in DOMAIN ret.tab.rows : ret.tab.rows[i].idx = LabelIdx(ret.tab.rows[i].gc)

\* the position the catalog gives a key, "-" when it gives none
CatalogPosition(p, k) ==
    IF \E j \in DOMAIN env.cat[p] : env.cat[p][j].Code = k /\ env.cat[p][j].Position # NaN
        THEN CatRow(p, k).Position
    ELSE Dash

\* the rows prepare_TS holds before the join
BeforeJoin ==
    prepare_TS(call.TS_path, FALSE, None, call.subset_codes, call.reindex).tab.rows

\* C19: with position=True every row the table had before the join is
\* returned, in the same order and with the same weekly cells, with a
\* Position column holding the catalog's position of the row's key, or "-"
\* when the catalog has none; no Position is null.
C19_LeftJoin ==
    (TSDone /\ call.position) =>
        /\ "Position" \in ret.tab.cols
        /\ Len(ret.tab.rows) = Len(BeforeJoin)
        /\ \A i \in DOMAIN ret.tab.rows :
              /\ ret.tab.rows[i].gc = BeforeJoin[i].gc
              /\ ret.tab.rows[i].w = BeforeJoin[i].w
              /\ ret.tab.rows[i].Position # NaN
              /\ ret.tab.rows[i].Position =
                    CatalogPosition(call.var_by_code_path, ret.tab.rows[i].gc)

\* the whole table joined to a catalog whose zero-mutations row has a blank
\* position: the two synthetic rows get "-", the variants their positions
C19_Witness ==
    /\ TSDone /\ call.position /\ call.subset_codes = NoSubset
    /\ call.TS_path.protein = "Spike" /\ call.var_by_code_path = "Spike"
    /\ env.cat["Spike"][1].Code = ZeroCode("Spike")
    /\ Len(ret.tab.rows) = 4
    /\ ret.tab.rows[1].Position = Dash /\ ret.tab.rows[2].Position = Dash
    /\ ret.tab.rows[3].Position = 1 /\ ret.tab.rows[4].Position = 2

(***************************************************************************)
(* code_region_index against the table it is given.                        *)
(***************************************************************************)
\* the label of a row with the given code and region: the format of the
\* arguments supplied, the bare code for a row without a region ("-") and,
\* when the protein alone is supplied, for the protein's zero-mutations row
IndexLabel(code, region) ==
    IF call.protein # None /\ call.region_colname # None
        THEN IF region = "-" THEN code
             ELSE call.protein \o ": " \o code \o " (" \o region \o ")"
    ELSE IF call.protein # None
        THEN IF code = ZeroCode(call.protein) THEN code ELSE call.protein \o ": " \o code
    ELSE IF call.region_colname # None
        THEN IF region = "-" THEN code ELSE code \o " (" \o region \o ")"
    ELSE code

\* C20: code_region_index labels every row in the format of the arguments
\* supplied, makes the labels the index, drops the key column and the region
\* column it used, and with neither argument warns and indexes by the key.
C20_IndexFormat ==
    call.op = "code_region_index" =>
        LET given == RegionTable(call.TS_path, call.region_path)
        IN /\ ret.err = ""
           /\ Len(ret.tab.rows) = Len(given.rows)
           /\ \A i \in DOMAIN given.rows :
                 /\ ret.tab.rows[i].idx =
                       LabelIdx(IndexLabel(given.rows[i].Code, given.rows[i].Region))
                 /\ ret.tab.rows[i].w = given.rows[i].w
           /\ ret.tab.cols =
                 given.cols \ (IF call.region_colname # None THEN {"Code", "Region"}
                               ELSE {"Code"})
           /\ ret.warned <=> (call.protein = None /\ call.region_colname = None)

\* neither argument: a warning and the raw keys
C20_Witness ==
    /\ call.op = "code_region_index" /\ call.protein = None /\ call.region_colname = None
    /\ ret.warned /\ ret.err = "" /\ Len(ret.tab.rows) = 4
    /\ ret.tab.rows[3].idx = LabelIdx("A1V") /\ "Region" \in ret.tab.cols

(***************************************************************************)
(* SpecText: the functions of text.  A region file is a sequence of lines, *)
(* a line the sequence of fields line.strip().split(",") gives; a field is *)
(* a string.                                                               *)
(***************************************************************************)
IntTable == [t \in {"1", "2", "3"} |-> IF t = "1" THEN 1 ELSE IF t = "2" THEN 2 ELSE 3]

int_lenient(x) ==
    IF x \in DOMAIN IntTable THEN [err |-> "", val |-> IntTable[x]]
    ELSE [err |-> "", val |-> 0]

\* int(x) of a string: the number, or ValueError
int(x) ==
    IF x \in DOMAIN IntTable THEN [err |-> "", val |-> IntTable[x]]
    ELSE [err |-> "ValueError", val |-> NaN]

\* name,start,end=line.split(",") and Protein_Region(name,start,end) fail
line_fails(line) ==
    Len(line) # 3 \/ int(line[2]).err # "" \/ int(line[3]).err # ""

\* lines 120-132 on the lines of the file: the regions of lines[1:]
read_regions(lines) ==
    LET body == IF lines = <<>> THEN <<>> ELSE Tail(lines)
    IN IF \E i \in DOMAIN body : line_fails(body[i])
          THEN [err |-> "ValueError", regions |-> <<>>]
       ELSE [err |-> "",
             regions |-> [i \in DOMAIN body |->
                            Protein_Region(body[i][1], int(body[i][2]).val,
                                           int(body[i][3]).val)]]

NumberFields == {"1", "3", "x", "2.0"}

RegionLines ==
    {<<n, a, b>> : n \in RegionNames, a \in NumberFields, b \in NumberFields}
        \cup {<<"">>, <<"Head", "1">>, <<"Head", "1", "3", "">>}

HeaderLines == {<<"Region", "Start", "End">>, <<"">>}

RegionFiles ==
    {<<>>} \cup {<<h>> \o body : h \in HeaderLines,
                                 body \in UNION {[1..k -> RegionLines] : k \in 0..MaxRegions}}

InitText ==
    /\ env = MkEnv(TRUE, DefaultPos, DefaultVal, DefaultVal, DefaultVal, DefaultTot, DefaultReg)
    /\ call = Idle
    /\ ret = NoRet

InitializeRegions ==
    /\ call = Idle
    /\ \E lines \in RegionFiles :
          /\ call' = [op |-> "initialize_regions", lines |-> lines]
          /\ ret' = read_regions(lines)
    /\ UNCHANGED env

\* the fields that are integers, and their values
IntegerFields == {"1", "3"}
NumberOf(t) == IF t = "1" THEN 1 ELSE IF t = "3" THEN 3 ELSE 0

WellFormed(line) ==
    Len(line) = 3 /\ line[2] \in IntegerFields /\ line[3] \in IntegerFields

LinesAfterHeader == IF call.lines = <<>> THEN <<>> ELSE Tail(call.lines)

\* C21: initialize_regions returns one region per line after the first, in
\* file order, with the line's name and bounds; when a line after the first
\* has not exactly three fields, or a start or end that is not an integer,
\* it raises and returns no regions.
C21_ParseOrFail ==
    call.op = "initialize_regions" =>
        IF \A i \in DOMAIN LinesAfterHeader : WellFormed(LinesAfterHeader[i])
            THEN /\ ret.err = ""
                 /\ Len(ret.regions) = Len(LinesAfterHeader)
                 /\ \A i \in DOMAIN LinesAfterHeader :
                       /\ ret.regions[i].name = LinesAfterHeader[i][1]
                       /\ ret.regions[i].start = NumberOf(LinesAfterHeader[i][2])
                       /\ ret.regions[i].end = NumberOf(LinesAfterHeader[i][3])
        ELSE ret.err # "" /\ ret.regions = <<>>

\* a well-formed line followed by a line whose end is not an integer
C21_Witness ==
    /\ call.op = "initialize_regions" /\ Len(call.lines) = 3
    /\ WellFormed(call.lines[2]) /\ call.lines[3] = <<"Tail", "1", "2.0">>
    /\ ret.err = "ValueError" /\ ret.regions = <<>>

\* C22 as stated: every region of a catalog initialize_regions returns has
\* start <= end.
C22_StartBeforeEnd ==
    (call.op = "initialize_regions" /\ ret.err = "") =>
        \A i \in DOMAIN ret.regions : ret.regions[i].start <= ret.regions[i].end

CodeStrings ==
    {"Zero_Mutations_in_Spike", "ZERO_MUTATIONS_IN_SPIKE", "Zero_mutations_in_spike",
     "zero_mutations_in_spike", "Zero_Mutations_in_N", "Total_Genomes", "A1V"}

ProteinStrings == {"Spike", "SPIKE", "spike", "N", "n"}

RegionStrings == {"-", "Head", "Other", "", " -", "--"}

DisplayProtein ==
    /\ call = Idle
    /\ \E code \in CodeStrings, protein \in ProteinStrings :
          /\ call' = [op |-> "display_protein", code |-> code, protein |-> protein]
          /\ ret' = [err |-> "", val |-> display_protein(code, protein)]
    /\ UNCHANGED env

DisplayRegion ==
    /\ call = Idle
    /\ \E code \in CodeStrings, region \in RegionStrings :
          /\ call' = [op |-> "display_region", code |-> code, region |-> region]
          /\ ret' = [err |-> "", val |-> display_region(code, region)]
    /\ UNCHANGED env

\* the spellings of a name that differ in letter case only
Spellings(s) ==
    IF s \in {"Spike", "SPIKE", "spike"} THEN {"Spike", "SPIKE", "spike"}
    ELSE IF s \in {"N", "n"} THEN {"N", "n"}
    ELSE IF s \in {"Zero_Mutations_in_Spike", "ZERO_MUTATIONS_IN_SPIKE",
                   "Zero_mutations_in_spike", "zero_mutations_in_spike"}
        THEN {"Zero_Mutations_in_Spike", "ZERO_MUTATIONS_IN_SPIKE",
              "Zero_mutations_in_spike", "zero_mutations_in_spike"}
    ELSE IF s \in {"Zero_Mutations_in_N", "zero_mutations_in_n"}
        THEN {"Zero_Mutations_in_N", "zero_mutations_in_n"}
    ELSE {s}

\* code is "zero_mutations_in_<protein>" but for letter case
IsZeroCodeOf(code, protein) ==
    \E c \in Spellings(code), p \in Spellings(protein) : c = "zero_mutations_in_" \o p

\* C23: display_protein returns the code itself exactly when the code is
\* "zero_mutations_in_<protein>" in some letter case of code and protein, and
\* "<protein>: <code>" for every other code.
C23_ZeroCodeAnyCase ==
    call.op = "display_protein" =>
        ret.val = (IF IsZeroCodeOf(call.code, call.protein) THEN call.code
                   ELSE call.protein \o ": " \o call.code)

\* the code in capitals, the protein in small letters
C23_Witness ==
    /\ call.op = "display_protein" /\ call.code = "ZERO_MUTATIONS_IN_SPIKE"
    /\ call.protein = "spike" /\ ret.val = "ZERO_MUTATIONS_IN_SPIKE"

\* C24: display_region returns the code itself for the region "-", and
\* "<code> (<region>)" for any other region.
C24_DashOrParenthesis ==
    call.op = "display_region" =>
        ret.val = (IF call.region = "-" THEN call.code
                   ELSE call.code \o " (" \o call.region \o ")")

\* the region "-"
C24_Witness ==
    /\ call.op = "display_region" /\ call.code = "A1V" /\ call.region = "-"
    /\ ret.val = "A1V"

(***************************************************************************)
(* color_shape_cycler.  A list argument is [kind, l]: kind "None" when it  *)
(* is not passed, "list" with the list l.  The variants are distinct, so   *)
(* the dictionary returned is given as the sequence of its values in the   *)
(* order of the variants.                                                  *)
(***************************************************************************)
MaxVariants == 61

DefaultMarkers == <<"o", "D", "p", "^", "s">>
DefaultColors ==
    <<"firebrick", "#1E399A", "purple", "#ABC44C", "chocolate", "lightcoral", "gold",
      "darkcyan", "black", "#AAAAFF", "#111111", "#2B8A0A">>

NoList == [kind |-> "None", l |-> <<>>]
AList(l) == [kind |-> "list", l |-> l]

\* lines 1202-1216: the keyword arguments of the variant at place i (from 0)
line_kwargs(i, colors, markers) ==
    LET color == colors[(i % Len(colors)) + 1]
        markershift == i \div Len(colors)
        marker == markers[((i + markershift) % Len(markers)) + 1]
    IN [marker |-> marker, color |-> color,
        mfc |-> IF color = "#111111" THEN "#888888" ELSE "",
        mec |-> IF color = "#111111" THEN "#111111" ELSE "#00000088",
        ms |-> IF marker = "p" \/ marker = "^" THEN 10 ELSE 8,
        mew |-> 1]

color_shape_cycler(unique_variants, color_list, marker_list) ==
    LET markers == IF marker_list.kind = "None" THEN DefaultMarkers ELSE marker_list.l
        colors == IF color_list.kind = "None" \/ color_list.l = <<>> THEN DefaultColors
                  ELSE color_list.l
    IN IF Len(unique_variants) > Len(markers) * Len(colors)
          THEN [err |-> "ValueError", val |-> <<>>]
       ELSE [err |-> "",
             val |-> [i \in DOMAIN unique_variants |-> line_kwargs(i - 1, colors, markers)]]

ColorChoice == <<"red", "blue", "green", "#111111">>
MarkerChoice == <<"o", "^", "s">>

ColorLists == {NoList} \cup {AList(SubSeq(ColorChoice, 1, k)) : k \in 0..Len(ColorChoice)}
MarkerLists == {NoList} \cup {AList(SubSeq(MarkerChoice, 1, k)) : k \in 0..Len(MarkerChoice)}

ColorShapeCycler ==
    /\ call = Idle
    /\ \E v \in 0..MaxVariants, color_list \in ColorLists, marker_list \in MarkerLists :
          /\ call' = [op |-> "color_shape_cycler", unique_variants |-> [i \in 1..v |-> i],
                      color_list |-> color_list, marker_list |-> marker_list]
          /\ ret' = color_shape_cycler([i \in 1..v |-> i], color_list, marker_list)
    /\ UNCHANGED env

\* the number of colours and of markers the call works with
ColorCount ==
    IF call.color_list.kind = "None" \/ call.color_list.l = <<>> THEN 12
    ELSE Len(call.color_list.l)
MarkerCount == IF call.marker_list.kind = "None" THEN 5 ELSE Len(call.marker_list.l)

\* C25 as stated: up to colours * markers variants get pairwise different
\* (colour, marker) combinations, and more variants than that raise an error.
C25_DistinctCombinations ==
    call.op = "color_shape_cycler" =>
        IF Len(call.unique_variants) > ColorCount * MarkerCount THEN ret.err = "ValueError"
        ELSE /\ ret.err = ""
             /\ \A i, j \in DOMAIN ret.val :
                   i # j => <<ret.val[i].color, ret.val[i].marker>>
                                # <<ret.val[j].color, ret.val[j].marker>>

(***************************************************************************)
(* variant_combos.  A string is the sequence of its characters; a cell of  *)
(* the "Variants" column is [null, s]: blank in the file, or the string s. *)
(***************************************************************************)
\* sub in x
contains(sub, x) ==
    \E k \in 0..(Len(x) - Len(sub)) : SubSeq(x, k + 1, k + Len(sub)) = sub

\* combos.fillna(" ") on a cell of "Variants"
fill_space(cell) == IF cell.null THEN <<" ">> ELSE cell.s

RECURSIVE size_sum(_, _)
size_sum(combos, keep) ==
    IF combos = <<>> THEN 0
    ELSE (IF Len(combos) \in keep THEN combos[Len(combos)].Cluster_Size ELSE 0)
             + size_sum(SubSeq(combos, 1, Len(combos) - 1), keep)

\* combos[combos["Variants"].apply(...)]["Cluster_Size"].sum()
cell_total(combos, var_A, var_B, has_A, has_B) ==
    size_sum(combos, {i \in DOMAIN combos :
                         /\ contains(var_A, fill_space(combos[i].Variants)) = has_A
                         /\ contains(var_B, fill_space(combos[i].Variants)) = has_B})

variant_combos_loose(combos, var_A, var_B) ==
    [AandB |-> cell_total(combos, var_A, var_B, TRUE, TRUE),
     AnotB |-> cell_total(combos, var_A, var_B, TRUE, FALSE),
     BnotA |-> cell_total(combos, var_A, var_B, FALSE, TRUE),
     notAB |-> cell_total(combos, var_A, var_B, FALSE, FALSE)
                  + cell_total(combos, var_A, var_B, FALSE, TRUE)]

\* the four totals of the table returned
variant_combos(combos, var_A, var_B) ==
    [AandB |-> cell_total(combos, var_A, var_B, TRUE, TRUE),
     AnotB |-> cell_total(combos, var_A, var_B, TRUE, FALSE),
     BnotA |-> cell_total(combos, var_A, var_B, FALSE, TRUE),
     notAB |-> cell_total(combos, var_A, var_B, FALSE, FALSE)]

Characters == {"A", "B", ","}
Strings == UNION {[1..k -> Characters] : k \in 0..2}
VariantCells == {[null |-> TRUE, s |-> <<>>]} \cup {[null |-> FALSE, s |-> x] : x \in Strings}
Clusters == {[Variants |-> c, Cluster_Size |-> n] : c \in VariantCells, n \in 1..MaxVal}
ComboTables == UNION {[1..k -> Clusters] : k \in 0..2}
VariantCodes == {<<"A">>, <<"B">>, <<"A", "B">>, <<",">>}

VariantCombos ==
    /\ call = Idle
    /\ \E combos \in ComboTables, var_A \in VariantCodes, var_B \in VariantCodes :
          /\ call' = [op |-> "variant_combos", combos |-> combos, var_A |-> var_A,
                      var_B |-> var_B]
          /\ ret' = [err |-> "", val |-> variant_combos(combos, var_A, var_B)]
    /\ UNCHANGED env

NextText ==
    InitializeRegions \/ DisplayProtein \/ DisplayRegion \/ ColorShapeCycler \/ VariantCombos

SpecText == InitText /\ [][NextText]_vars

\* the clusters whose Variants text holds the code, a blank holding a space
Holding(code) ==
    {i \in DOMAIN call.combos :
        LET x == IF call.combos[i].Variants.null THEN <<" ">> ELSE call.combos[i].Variants.s
        IN \E k \in 0..(Len(x) - Len(code)) : SubSeq(x, k + 1, k + Len(code)) = code}

SizeOf(clusters) ==
    LET RECURSIVE upto(_)
        upto(k) == IF k = 0 THEN 0
                   ELSE (IF k \in clusters THEN call.combos[k].Cluster_Size ELSE 0)
                            + upto(k - 1)
    IN upto(Len(call.combos))

\* C29: every cluster is counted in exactly one of the four cells: each cell
\* is the total size of the clusters with that presence of A and of B, and
\* the four cells add up to the total size of all clusters.
C29_FourCellsPartition ==
    call.op = "variant_combos" =>
        LET all == DOMAIN call.combos
            A == Holding(call.var_A)
            B == Holding(call.var_B)
        IN /\ ret.val.AandB = SizeOf(A \cap B)
           /\ ret.val.AnotB = SizeOf(A \ B)
           /\ ret.val.BnotA = SizeOf(B \ A)
           /\ ret.val.notAB = SizeOf(all \ (A \cup B))
           /\ ret.val.AandB + ret.val.AnotB + ret.val.BnotA + ret.val.notAB = SizeOf(all)

\* a cluster with both codes, one with B only and a blank one
C29_Witness ==
    /\ call.op = "variant_combos" /\ call.var_A = <<"A">> /\ call.var_B = <<"B">>
    /\ Len(call.combos) = 2
    /\ call.combos[1].Variants = [null |-> FALSE, s |-> <<"A", "B">>]
    /\ call.combos[2].Variants.null
    /\ ret.val.AandB > 0 /\ ret.val.notAB > 0

(***************************************************************************)
(* Region maps that name no file.                                          *)
(***************************************************************************)
\* the map of the call is a dictionary in which no listed protein has a path
NoPathInMap ==
    /\ call.region_paths.kind = "dict"
    /\ \A p \in Listed : p \in DOMAIN call.region_paths.m => call.region_paths.m[p] = None

\* C27: aggregate_TS with position=True and a map that is empty or holds
\* only None completes and returns the table it returns for region_paths=None.
C27_NoPathsLikeNone ==
    (call.op = "aggregate_TS" /\ call.position /\ NoPathInMap) =>
        /\ ret.err = ""
        /\ ret.tab = aggregate_TS(call.proteins, NoMap, call.continent, TRUE).tab

\* a listed protein is not a key of the non-empty map of the call
MissingFromMap(p) ==
    /\ MapTruthy(call.region_paths)
    /\ p \in Listed
    /\ p \notin DOMAIN call.region_paths.m

\* C28: the continent-specific path of aggregate_codes treats a listed
\* protein missing from the map as the Global path does: the call raises
\* no error and the protein's rows carry "-" in the region column.
C28_ContinentMissingProtein ==
    (/\ call.op = "aggregate_codes"
     /\ call.continent # "Global"
     /\ call.parent_TS_dir # ""
     /\ \E p \in Proteins : MissingFromMap(p)) =>
        /\ ret.err = ""
        /\ \A i \in DOMAIN ret.tab.rows :
              MissingFromMap(ret.tab.rows[i].gp) => ret.tab.rows[i].Region = "-"

(***************************************************************************)
(* The rows prepare_top_n returns against the prevalence files.            *)
(***************************************************************************)
\* r is the row of a variant of the prevalence file of its protein, with
\* that row's weekly values
FromMatrix(r) ==
    /\ r.gp \in TopProteins
    /\ \E k \in DOMAIN env.ts[PercentPath(r.gp, call.continent)] :
          /\ env.ts[PercentPath(r.gp, call.continent)][k].key = r.gc
          /\ env.ts[PercentPath(r.gp, call.continent)][k].w = r.w

\* C26: every row of the matrix prepare_top_n returns is a row of the source
\* prevalence matrix, with its label and its values; no returned row is a
\* row of missing values made for a top-n label the matrix does not hold.
C26_RowsFromMatrix ==
    TopDone => \A i \in DOMAIN ret.tab.rows : FromMatrix(ret.tab.rows[i])

(***************************************************************************)
(* SpecMaps: the region map of the caller across check_region_paths and    *)
(* the functions that run it.                                              *)
(***************************************************************************)
InitMaps ==
    /\ \E z \in BOOLEAN :
          env = MkEnv(z, DefaultPos, DefaultVal, DefaultVal, DefaultVal, DefaultTot, DefaultReg)
    /\ call = Idle
    /\ ret = NoRet

\* the dictionary is changed in place and returned: rmap is both
CheckRegionPaths ==
    /\ call = Idle
    /\ \E proteins \in ProteinLists, m \in Dicts :
          /\ call' = [op |-> "check_region_paths", proteins |-> proteins,
                      region_paths |-> DictMap(m)]
          /\ ret' = [err |-> "", rmap |-> check_region_paths(proteins, m)]
    /\ UNCHANGED env

NextMaps == CheckRegionPaths \/ AggregateTS \/ AggregateCodes \/ PrepareTopN

SpecMaps == InitMaps /\ [][NextMaps]_vars

\* the call reaches check_region_paths with a dictionary of the caller
RunsCheck ==
    CASE call.op = "check_region_paths" -> TRUE
      [] call.op = "aggregate_TS" -> call.region_paths.kind = "dict"
      [] call.op = "aggregate_codes" ->
            call.continent = "Global" /\ MapTruthy(call.region_paths)
      [] call.op = "prepare_top_n" ->
            call.aggregate /\ call.protein.kind = "list" /\ call.region_path.kind = "dict"
      [] OTHER -> FALSE

MapBefore == IF call.op = "prepare_top_n" THEN call.region_path.m ELSE call.region_paths.m
MapAfter == IF call.op = "prepare_top_n" THEN ret.rmap.m ELSE ret.rmap
ListedProteins == IF call.op = "prepare_top_n" THEN Range(call.protein.l) ELSE Range(call.proteins)

\* C30: check_region_paths and every function that runs it only add entries
\* to the caller's region map: afterwards every listed protein is a key, a
\* key that was missing maps to None, every entry present before keeps its
\* value and none is removed.
C30_OnlyAdds ==
    RunsCheck =>
        /\ DOMAIN MapAfter = DOMAIN MapBefore \cup ListedProteins
        /\ \A p \in DOMAIN MapBefore : MapAfter[p] = MapBefore[p]
        /\ \A p \in ListedProteins \ DOMAIN MapBefore : MapAfter[p] = None

\* prepare_top_n on two proteins with a map that names a file for one of them
C30_Witness ==
    /\ call.op = "prepare_top_n" /\ RunsCheck
    /\ call.protein.l = <<"N", "Spike">>
    /\ DOMAIN MapBefore = {"Spike"} /\ MapBefore["Spike"] # None
    /\ DOMAIN MapAfter = {"Spike", "N"}
    /\ MapAfter["N"] = None /\ MapAfter["Spike"] = MapBefore["Spike"]


====
